---------------------------- MODULE Spec2Model ----------------------------
(***************************************************************************)
(* State-machine model of the CAN Financial Solutions web client:          *)
(* cookie-gated navigation (app/auth, app/dashboard, app/prospect,         *)
(* app/fna), the prospect list manager and the dashboard data loader.      *)
(*                                                                         *)
(* Strings whose characters matter (cookie text, route paths) are tuples   *)
(* of one-character strings, so that startsWith / split / join are         *)
(* computed character by character as the code computes them.              *)
(***************************************************************************)
EXTENDS Integers, Sequences, FiniteSets, TLC

Null == "null"

\* null of a string-valued field whose characters matter
NoPath == <<"null">>

(***************************************************************************)
(* Character strings                                                       *)
(***************************************************************************)
AUTH_COOKIE == <<"c", "a", "n", "f", "s", "_", "a", "u", "t", "h">>
PathAuth == <<"/", "a", "u", "t", "h">>
PathDashboard == <<"/", "d", "a", "s", "h", "b", "o", "a", "r", "d">>
PathFna == <<"/", "f", "n", "a">>
PathProspect == <<"/", "p", "r", "o", "s", "p", "e", "c", "t">>
PathLogin == <<"/", "l", "o", "g", "i", "n">>
PathRoot == <<"/">>
PathFnax == <<"/", "f", "n", "a", "x">>
PathFnaSub == <<"/", "f", "n", "a", "/", "x">>
PathSettings == <<"/", "s", "e", "t", "t", "i", "n", "g", "s">>
PathExternal == <<"/", "/", "e", "v", "i", "l">>
PathNoSlash == <<"f", "n", "a">>
StrTrue == <<"t", "r", "u", "e">>
StrTruexyz == <<"t", "r", "u", "e", "x", "y", "z">>
StrFalse == <<"f", "a", "l", "s", "e">>
StrEmpty == << >>
StrOther == <<"o", "t", "h", "e", "r">>
StrXAuth == <<"x">> \o AUTH_COOKIE
StrSep == <<";", " ">>
StrEq == <<"=">>
StrSlash == <<"/">>

\* String.prototype.startsWith
StartsWith(s, p) ==
  /\ Len(p) <= Len(s)
  /\ SubSeq(s, 1, Len(p)) = p

\* Array.prototype.join(sep) over a sequence of strings
RECURSIVE Join(_, _)
Join(parts, sep) ==
  IF parts = << >> THEN << >>
  ELSE IF Len(parts) = 1 THEN parts[1]
  ELSE parts[1] \o sep \o Join(Tail(parts), sep)

\* String.prototype.split(sep): scans s left to right, cutting at every
\* occurrence of sep; acc is the piece being collected.
RECURSIVE SplitFrom(_, _, _)
SplitFrom(s, sep, acc) ==
  IF s = << >> THEN <<acc>>
  ELSE IF StartsWith(s, sep)
       THEN <<acc>> \o SplitFrom(SubSeq(s, Len(sep) + 1, Len(s)), sep, << >>)
       ELSE SplitFrom(Tail(s), sep, Append(acc, Head(s)))

Split(s, sep) == SplitFrom(s, sep, << >>)

\* Array.prototype.some
Some(seq, P(_)) == \E i \in 1..Len(seq) : P(seq[i])

(***************************************************************************)
(* Cookie jar: the browser's cookies for the site, a sequence of           *)
(* name/value pairs; document.cookie reads them as "n=v; n=v".             *)
(***************************************************************************)
Cookie(n, v) == [name |-> n, value |-> v]

RECURSIVE CookieTexts(_)
CookieTexts(jar) ==
  IF jar = << >> THEN << >>
  ELSE <<Head(jar).name \o StrEq \o Head(jar).value>> \o CookieTexts(Tail(jar))

DocumentCookie(jar) == Join(CookieTexts(jar), StrSep)

RECURSIVE RemoveCookie(_, _)
RemoveCookie(jar, n) ==
  IF jar = << >> THEN << >>
  ELSE IF Head(jar).name = n THEN RemoveCookie(Tail(jar), n)
       ELSE <<Head(jar)>> \o RemoveCookie(Tail(jar), n)

\* document.cookie = "n=v; path=/; max-age=m; ..." : max-age=0 deletes the
\* cookie of that name, otherwise the cookie of that name is replaced.
AssignCookie(jar, n, v, maxAge) ==
  IF maxAge = 0 THEN RemoveCookie(jar, n)
  ELSE Append(RemoveCookie(jar, n), Cookie(n, v))

MaxAgeDay == 86400

hasAuthCookie(jar) ==
  Some(Split(DocumentCookie(jar), StrSep),
       LAMBDA c : StartsWith(c, AUTH_COOKIE \o StrEq \o StrTrue))

setAuthCookie(jar) == AssignCookie(jar, AUTH_COOKIE, StrTrue, MaxAgeDay)

clearAuthCookie(jar) == AssignCookie(jar, AUTH_COOKIE, StrEmpty, 0)

(***************************************************************************)
(* State                                                                   *)
(***************************************************************************)
VARIABLES
  loginImpl,    \* which LoginPage source serves /auth
  jar,          \* the browser's cookies
  location,     \* path of the current URL
  searchNext,   \* the ?next= parameter of the current URL, or NoPath
  phase,        \* "mounting": page rendered, effects not yet run; "mounted"
  pendingNav,   \* target of the last router.replace / router.push, or NoPath
  email, password, destination, loginError, isLoading,   \* LoginPage state
  nextPath,     \* LoginPage state of the second LoginPage source
  effectDue,    \* the redirect effect must re-run (its dependency changed)
  signInPc,     \* "idle" or "delay": signIn is awaiting its 100 ms timer
  inflight,     \* backend reads issued by the mounted page, not yet answered
  rowsHeld,     \* pages whose component state holds backend rows
  authResult,   \* result of the last hasAuthCookie() call, or Null
  \* ---- prospect page (app/prospect/page.tsx) ----
  dbProspects,  \* the backend table 'prospects'
  dbNextId,     \* the table's id sequence
  prospects, loading, saving, mode, showCard, activeId, original, form,
  errorMsg, successMsg,                       \* ProspectPage state
  toastTimers,  \* pending setTimeout callbacks of setToast
  writeReq,     \* the insert / update / delete request in flight, or NoReq
  loadsPlain,   \* select requests in flight issued by loadProspects
  loadsClose,   \* ... of which saveEdit awaits to close the card afterwards
  \* ---- dashboard page (app/dashboard/page.tsx) ----
  dashLoading, dashError, activeView, upcomingRows, progressRows, allRows,
  progressSortDir, allSortDir,                \* DashboardPage state
  dashSaving,   \* the view whose saving id is set, or "none"
  headData,     \* the loadData calls whose rows reached the stats and charts
  dashPc,       \* 0, or the position in LoadDataOrder that loadData awaits
  dashCalls,    \* RPCs in flight that were issued outside loadData
  lastRpcError, \* the RPC named by callRPC's last console.error, or Null
  alertMsg,     \* the text of the open alert(), or Null
  upcomingSortKey, upcomingSortDir, progressSortKey, allSortKey,
  progressPage, allPage, upcomingDrafts, allDrafts, upcomingModified,
  allModified,                                \* DashboardPage state
  savingCell,   \* the cell whose update is in flight, or "none"
  saveQueue,    \* handleSaveChanges: its view and the cells still to send
  focusCell,    \* the cell that has the focus, or "none"
  \* ---- prospect page, list view ----
  search, resultFilter, page, sortConfig,     \* ProspectPage state
  \* ---- a call of a helper function on its own ----
  callArg,      \* the argument of the last call
  callRes,      \* what the call returned
  \* ---- two dashboard sessions on one client record ----
  backendValue, \* the field of the record as the backend holds it
  arrivals,     \* the values of the writes the backend has stored, in order
  sessions,     \* per session: the field in its local row, its update in
                \* flight, its fetch in flight, and the value of its own
                \* that the backend stored since its last fetch
  \* ---- the editable cells of a dashboard table ----
  table,        \* per view: rows, drafts, savingId, modified, openCell
  clientFields, \* the fields of the client records as the backend holds them
  updates,      \* the handleUpdateRow calls that have not returned, oldest
                \* first
  saveLoop,     \* handleSaveChanges: the drafts it still has to send
  cellFocus,    \* the cell that has the focus, or NoCell
  \* ---- the paged views of the dashboard ----
  listing,      \* per view: page, sort column and direction, and the rows
                \* and total on display
  fetches       \* the fetches of the paged views not yet answered, oldest
                \* first

navVars == <<loginImpl, jar, location, searchNext, phase, pendingNav, email,
             password, destination, loginError, isLoading, nextPath,
             effectDue, signInPc, inflight, rowsHeld>>

prospectVars == <<dbProspects, dbNextId, prospects, loading, saving, mode,
                  showCard, activeId, original, form, errorMsg, successMsg,
                  toastTimers, writeReq, loadsPlain, loadsClose>>

sortKeyVars == <<upcomingSortKey, upcomingSortDir, progressSortKey,
                 allSortKey>>

pageVars == <<progressPage, allPage>>

draftVars == <<upcomingDrafts, allDrafts>>

modifiedVars == <<upcomingModified, allModified>>

viewVars == <<sortKeyVars, pageVars, draftVars, modifiedVars, savingCell,
              saveQueue, focusCell>>

dashVars == <<dashLoading, dashError, activeView, upcomingRows, progressRows,
              allRows, progressSortDir, allSortDir, dashSaving, headData,
              dashPc, dashCalls, lastRpcError, alertMsg, viewVars>>

listVars == <<search, resultFilter, page, sortConfig>>

callVars == <<callArg, callRes>>

sessionVars == <<backendValue, arrivals, sessions>>

tableVars == <<table, clientFields, updates, saveLoop, cellFocus>>

pagingVars == <<listing, fetches>>

nonNavVars == <<authResult, prospectVars, dashVars, listVars, callVars,
                sessionVars, tableVars, pagingVars>>

nonProspectVars == <<navVars, authResult, dashVars, listVars, callVars,
                     sessionVars, tableVars, pagingVars>>

nonDashVars == <<navVars, authResult, prospectVars, listVars, callVars,
                 sessionVars, tableVars, pagingVars>>

nonTableVars == <<navVars, authResult, prospectVars, dashVars, listVars,
                  callVars, sessionVars, pagingVars>>

nonPagingVars == <<navVars, authResult, prospectVars, dashVars, listVars,
                   callVars, sessionVars, tableVars>>

vars == <<navVars, nonNavVars>>

(***************************************************************************)
(* Login page                                                              *)
(***************************************************************************)
DESTINATIONS ==
  << [value |-> "dashboard", path |-> PathDashboard],
     [value |-> "fna", path |-> PathFna],
     [value |-> "prospect", path |-> PathProspect] >>

DestinationValues == {DESTINATIONS[i].value : i \in 1..Len(DESTINATIONS)}

NoDestination == [value |-> "null", path |-> NoPath]

\* Array.prototype.find: the first element satisfying P, or none
Find(seq, P(_), none) ==
  IF Some(seq, P)
  THEN seq[CHOOSE i \in 1..Len(seq) :
             P(seq[i]) /\ \A j \in 1..(i - 1) : ~P(seq[j])]
  ELSE none

\* dest?.path ?? '/dashboard'
PathOrDashboard(dest) ==
  IF dest = NoDestination THEN PathDashboard ELSE dest.path

\* validNextTarget falling back to the login page itself
validNextTargetSelf(next) ==
  LET validNext == Find(DESTINATIONS,
                        LAMBDA d : next # NoPath /\ StartsWith(next, d.path),
                        NoDestination)
  IN  IF validNext # NoDestination THEN next ELSE PathAuth

\* app/auth/page.tsx: target of the already-authenticated redirect
validNextTarget(next) ==
  LET validNext == Find(DESTINATIONS,
                        LAMBDA d : next # NoPath /\ StartsWith(next, d.path),
                        NoDestination)
  IN  IF validNext # NoDestination THEN next ELSE PathDashboard

\* app/auth/page.tsx: target of signIn
redirectTo(dest) ==
  PathOrDashboard(Find(DESTINATIONS, LAMBDA d : d.value = dest, NoDestination))

\* second LoginPage source: n && n.startsWith('/') ? n : null
parseNextPath(n) ==
  IF n # NoPath /\ n # StrEmpty /\ StartsWith(n, StrSlash) THEN n ELSE NoPath

\* second LoginPage source: selectedPath
selectedPath(dest) ==
  IF dest = "fna" THEN PathDashboard
  ELSE PathOrDashboard(Find(DESTINATIONS, LAMBDA d : d.value = dest,
                            NoDestination))

\* nextPath ?? fallback
OrElse(p, fallback) == IF p = NoPath THEN fallback ELSE p

MsgEnterBoth == "Please enter email and password"

(***************************************************************************)
(* Routing and page life cycle                                             *)
(***************************************************************************)
ProtectedPaths == {PathDashboard, PathFna, PathProspect}

\* state of a freshly rendered page: every useState initial value
FreshPage ==
  /\ email' = ""
  /\ password' = ""
  /\ destination' = "dashboard"
  /\ loginError' = Null
  /\ isLoading' = FALSE
  /\ nextPath' = NoPath
  /\ effectDue' = FALSE
  /\ signInPc' = "idle"
  /\ inflight' = {}
  /\ rowsHeld' = {}

\* URLs a user may type, and ?next= values a link may carry
OpenPaths ==
  {PathAuth, PathDashboard, PathFna, PathProspect, PathLogin, PathSettings}

NextValues ==
  {NoPath, StrEmpty, PathFna, PathProspect, PathFnaSub, PathFnax,
   PathSettings, PathExternal, PathNoSlash}

\* the user opens a URL: the page for it is rendered, effects still to run
OpenUrl(p, n) ==
  /\ location' = p
  /\ searchNext' = n
  /\ phase' = "mounting"
  /\ pendingNav' = NoPath
  /\ FreshPage
  /\ UNCHANGED <<loginImpl, jar, nonNavVars>>

\* the router performs the navigation last requested by replace / push
CommitNav ==
  /\ pendingNav # NoPath
  /\ ~effectDue
  /\ location' = pendingNav
  /\ searchNext' = NoPath
  /\ phase' = "mounting"
  /\ pendingNav' = NoPath
  /\ FreshPage
  /\ UNCHANGED <<loginImpl, jar, nonNavVars>>

\* app/auth/page.tsx LoginPage: effect "Redirect if already authenticated"
LoginMount ==
  /\ loginImpl = "auth_page"
  /\ location = PathAuth
  /\ phase = "mounting"
  /\ phase' = "mounted"
  /\ pendingNav' = IF hasAuthCookie(jar) THEN validNextTarget(searchNext)
                   ELSE pendingNav
  /\ UNCHANGED <<loginImpl, jar, location, searchNext, email, password,
                 destination, loginError, isLoading, nextPath, effectDue,
                 signInPc, inflight, rowsHeld, nonNavVars>>

\* second LoginPage source: both mount effects run with nextPath = null in
\* their closure; the first one sets nextPath, so the second is due again.
LoginMount2 ==
  /\ loginImpl = "part_002"
  /\ location = PathAuth
  /\ phase = "mounting"
  /\ phase' = "mounted"
  /\ nextPath' = parseNextPath(searchNext)
  /\ effectDue' = (nextPath' # nextPath)
  /\ pendingNav' = IF hasAuthCookie(jar) THEN OrElse(nextPath, PathDashboard)
                   ELSE pendingNav
  /\ UNCHANGED <<loginImpl, jar, location, searchNext, email, password,
                 destination, loginError, isLoading, signInPc, inflight,
                 rowsHeld, nonNavVars>>

\* second LoginPage source: the redirect effect re-runs after nextPath changed
LoginRerender2 ==
  /\ loginImpl = "part_002"
  /\ location = PathAuth
  /\ phase = "mounted"
  /\ effectDue
  /\ effectDue' = FALSE
  /\ pendingNav' = IF hasAuthCookie(jar) THEN OrElse(nextPath, PathDashboard)
                   ELSE pendingNav
  /\ UNCHANGED <<loginImpl, jar, location, searchNext, phase, email,
                 password, destination, loginError, isLoading, nextPath,
                 signInPc, inflight, rowsHeld, nonNavVars>>

\* app/prospect/page.tsx ProspectPage: the "Auth" effect and the
\* "Load prospects on mount" effect both run on mount
ProspectMount ==
  /\ location = PathProspect
  /\ phase = "mounting"
  /\ phase' = "mounted"
  /\ pendingNav' = IF ~hasAuthCookie(jar) THEN PathAuth ELSE pendingNav
  /\ inflight' = inflight \cup {"prospects.select"}
  /\ UNCHANGED <<loginImpl, jar, location, searchNext, email, password,
                 destination, loginError, isLoading, nextPath, effectDue,
                 signInPc, rowsHeld, nonNavVars>>

\* app/dashboard/page.tsx DashboardPage: mount effect
DashboardMount ==
  /\ location = PathDashboard
  /\ phase = "mounting"
  /\ phase' = "mounted"
  /\ IF ~hasAuthCookie(jar)
     THEN /\ pendingNav' = PathLogin
          /\ inflight' = inflight
     ELSE /\ pendingNav' = pendingNav
          /\ inflight' = inflight \cup {"dashboard.loadData"}
  /\ UNCHANGED <<loginImpl, jar, location, searchNext, email, password,
                 destination, loginError, isLoading, nextPath, effectDue,
                 signInPc, rowsHeld, nonNavVars>>

\* FNA page: session guard on mount
FnaMount ==
  /\ location = PathFna
  /\ phase = "mounting"
  /\ phase' = "mounted"
  /\ pendingNav' = IF ~hasAuthCookie(jar) THEN PathAuth ELSE pendingNav
  /\ UNCHANGED <<loginImpl, jar, location, searchNext, email, password,
                 destination, loginError, isLoading, nextPath, effectDue,
                 signInPc, inflight, rowsHeld, nonNavVars>>

\* any other path: no page of the application, nothing runs
NotFoundMount ==
  /\ location \notin ProtectedPaths \cup {PathAuth}
  /\ phase = "mounting"
  /\ phase' = "mounted"
  /\ UNCHANGED <<loginImpl, jar, location, searchNext, pendingNav, email,
                 password, destination, loginError, isLoading, nextPath,
                 effectDue, signInPc, inflight, rowsHeld, nonNavVars>>

\* a backend read of the mounted page is answered: setProspects / setXRows
BackendResponse(req) ==
  /\ req \in inflight
  /\ inflight' = inflight \ {req}
  /\ rowsHeld' = rowsHeld \cup {location}
  /\ UNCHANGED <<loginImpl, jar, location, searchNext, phase, pendingNav,
                 email, password, destination, loginError, isLoading,
                 nextPath, effectDue, signInPc, nonNavVars>>

(***************************************************************************)
(* Login form                                                              *)
(***************************************************************************)
OnLoginPage == location = PathAuth /\ phase = "mounted"

\* values typed in the email and password inputs
TypedValues == {"", "a"}

SetEmail(v) ==
  /\ OnLoginPage
  /\ ~isLoading
  /\ email' = v
  /\ UNCHANGED <<loginImpl, jar, location, searchNext, phase, pendingNav,
                 password, destination, loginError, isLoading, nextPath,
                 effectDue, signInPc, inflight, rowsHeld, nonNavVars>>

SetPassword(v) ==
  /\ OnLoginPage
  /\ ~isLoading
  /\ password' = v
  /\ UNCHANGED <<loginImpl, jar, location, searchNext, phase, pendingNav,
                 email, destination, loginError, isLoading, nextPath,
                 effectDue, signInPc, inflight, rowsHeld, nonNavVars>>

SetDestination(d) ==
  /\ OnLoginPage
  /\ ~isLoading
  /\ destination' = d
  /\ UNCHANGED <<loginImpl, jar, location, searchNext, phase, pendingNav,
                 email, password, loginError, isLoading, nextPath,
                 effectDue, signInPc, inflight, rowsHeld, nonNavVars>>

\* signIn without setIsLoading(false) on the validation failure
signInKeepsLoading ==
  /\ loginImpl = "auth_page"
  /\ OnLoginPage
  /\ ~isLoading
  /\ IF email = "" \/ password = ""
     THEN /\ loginError' = MsgEnterBoth
          /\ isLoading' = TRUE
          /\ UNCHANGED <<jar, signInPc>>
     ELSE /\ loginError' = Null
          /\ isLoading' = TRUE
          /\ jar' = AssignCookie(jar, AUTH_COOKIE, StrTrue, MaxAgeDay)
          /\ signInPc' = "delay"
  /\ UNCHANGED <<loginImpl, location, searchNext, phase, pendingNav, email,
                 password, destination, nextPath, effectDue, inflight,
                 rowsHeld, nonNavVars>>

\* app/auth/page.tsx signIn, up to its await of the 100 ms timer
signIn ==
  /\ loginImpl = "auth_page"
  /\ OnLoginPage
  /\ ~isLoading
  /\ IF email = "" \/ password = ""
     THEN /\ loginError' = MsgEnterBoth
          /\ isLoading' = FALSE
          /\ UNCHANGED <<jar, signInPc>>
     ELSE /\ loginError' = Null
          /\ isLoading' = TRUE
          /\ jar' = AssignCookie(jar, AUTH_COOKIE, StrTrue, MaxAgeDay)
          /\ signInPc' = "delay"
  /\ UNCHANGED <<loginImpl, location, searchNext, phase, pendingNav, email,
                 password, destination, nextPath, effectDue, inflight,
                 rowsHeld, nonNavVars>>

\* app/auth/page.tsx signIn, after the timer: router.replace(redirectTo)
signInResume ==
  /\ loginImpl = "auth_page"
  /\ OnLoginPage
  /\ signInPc = "delay"
  /\ signInPc' = "idle"
  /\ pendingNav' = redirectTo(destination)
  /\ UNCHANGED <<loginImpl, jar, location, searchNext, phase, email,
                 password, destination, loginError, isLoading, nextPath,
                 effectDue, inflight, rowsHeld, nonNavVars>>

\* second LoginPage source: signIn
signIn2 ==
  /\ loginImpl = "part_002"
  /\ OnLoginPage
  /\ IF email = "" \/ password = ""
     THEN /\ loginError' = MsgEnterBoth
          /\ UNCHANGED <<jar, pendingNav>>
     ELSE /\ loginError' = Null
          /\ jar' = setAuthCookie(jar)
          /\ pendingNav' = OrElse(nextPath, selectedPath(destination))
  /\ UNCHANGED <<loginImpl, location, searchNext, phase, email, password,
                 destination, isLoading, nextPath, effectDue, signInPc,
                 inflight, rowsHeld, nonNavVars>>

(***************************************************************************)
(* Logout                                                                  *)
(***************************************************************************)
\* app/prospect/page.tsx logout
logout ==
  /\ location = PathProspect
  /\ phase = "mounted"
  /\ jar' = clearAuthCookie(jar)
  /\ pendingNav' = PathAuth
  /\ UNCHANGED <<loginImpl, location, searchNext, phase, email, password,
                 destination, loginError, isLoading, nextPath, effectDue,
                 signInPc, inflight, rowsHeld, nonNavVars>>

\* app/dashboard/page.tsx handleLogout
handleLogout ==
  /\ location = PathDashboard
  /\ phase = "mounted"
  /\ jar' = clearAuthCookie(jar)
  /\ pendingNav' = PathLogin
  /\ UNCHANGED <<loginImpl, location, searchNext, phase, email, password,
                 destination, loginError, isLoading, nextPath, effectDue,
                 signInPc, inflight, rowsHeld, nonNavVars>>

\* FNA page: the logout handler handed to FNAHeader as onLogout
fnaLogout ==
  /\ jar' = clearAuthCookie(jar)
  /\ pendingNav' = PathAuth

\* FNAHeader handleLogout: onLogout when the page passes one, else push('/').
\* The FNA page hands its own logout to its header, so the specification
\* takes the step with onLogout = TRUE.
fnaHeaderLogout(onLogout) ==
  /\ location = PathFna
  /\ phase = "mounted"
  /\ IF onLogout
     THEN fnaLogout
     ELSE /\ pendingNav' = PathRoot
          /\ jar' = jar
  /\ UNCHANGED <<loginImpl, location, searchNext, phase, email, password,
                 destination, loginError, isLoading, nextPath, effectDue,
                 signInPc, inflight, rowsHeld, nonNavVars>>

\* the browser drops the auth cookie (max-age reached, or cookies cleared)
CookieExpires ==
  /\ hasAuthCookie(jar)
  /\ jar' = RemoveCookie(jar, AUTH_COOKIE)
  /\ UNCHANGED <<loginImpl, location, searchNext, phase, pendingNav, email,
                 password, destination, loginError, isLoading, nextPath,
                 effectDue, signInPc, inflight, rowsHeld, nonNavVars>>

(***************************************************************************)
(* A page already mounted by a signed-in user                              *)
(***************************************************************************)
SignedInAt(path) ==
  /\ loginImpl = "auth_page"
  /\ jar = <<Cookie(AUTH_COOKIE, StrTrue)>>
  /\ location = path
  /\ searchNext = NoPath
  /\ phase = "mounted"
  /\ pendingNav = NoPath
  /\ email = ""
  /\ password = ""
  /\ destination = "dashboard"
  /\ loginError = Null
  /\ isLoading = FALSE
  /\ nextPath = NoPath
  /\ effectDue = FALSE
  /\ signInPc = "idle"
  /\ inflight = {}
  /\ rowsHeld = {}

Min(a, b) == IF a < b THEN a ELSE b

Max(a, b) == IF a > b THEN a ELSE b

(***************************************************************************)
(* Dashboard page                                                          *)
(***************************************************************************)
RpcTopStats == "get_top_stats"
RpcChart == "get_bop_followup_completion_chart"
RpcCallChart == "get_call_status_chart"
RpcUpcoming == "get_upcoming_meetings"
RpcProgress == "get_progress_monitoring"
RpcAll == "get_all_records"
RpcUpdate == "update_client_field"

RpcNames ==
  {RpcTopStats, RpcChart, RpcCallChart, RpcUpcoming, RpcProgress, RpcAll,
   RpcUpdate}

\* the calls of loadData, in the order it awaits them
LoadDataOrder ==
  <<RpcTopStats, RpcChart, RpcCallChart, RpcUpcoming, RpcProgress, RpcAll>>

MsgDashLoad == "Error loading data. Please try again."
MsgAlertUpdate == "Failed to update. Please try again."

\* handleSaveChanges is not running
NoQueue == [view |-> "none", cells |-> << >>]

\* DashboardPage's useState initial values for the views
ViewIdle ==
  /\ upcomingSortKey = "BOP_Date"
  /\ upcomingSortDir = "asc"
  /\ progressSortKey = "client_name"
  /\ allSortKey = "created_at"
  /\ progressPage = 1
  /\ allPage = 1
  /\ upcomingDrafts = {}
  /\ allDrafts = {}
  /\ upcomingModified = FALSE
  /\ allModified = FALSE
  /\ savingCell = "none"
  /\ saveQueue = NoQueue
  /\ focusCell = "none"

\* DashboardPage's useState initial values
DashIdle ==
  /\ ViewIdle
  /\ dashLoading = TRUE
  /\ dashError = ""
  /\ activeView = "upcoming"
  /\ upcomingRows = "none"
  /\ progressRows = "none"
  /\ allRows = "none"
  /\ progressSortDir = "asc"
  /\ allSortDir = "desc"
  /\ dashSaving = "none"
  /\ headData = {}
  /\ dashPc = 0
  /\ dashCalls = {}
  /\ lastRpcError = Null
  /\ alertMsg = Null

\* callRPC's result as its callers see it: the rows, or null after an error
\* that callRPC has logged and swallowed
callRPC(name, ok) ==
  [data |-> IF ok THEN "rows" ELSE "none",
   logged |-> IF ok THEN lastRpcError ELSE name]

\* setUpcomingRows / setProgressRows / setAllRows after callRPC(name), and
\* the reset of the view's modified flag that follows it
FetchInto(name, r) ==
  /\ upcomingRows' = IF name = RpcUpcoming THEN r.data ELSE upcomingRows
  /\ progressRows' = IF name = RpcProgress THEN r.data ELSE progressRows
  /\ allRows' = IF name = RpcAll THEN r.data ELSE allRows
  /\ upcomingModified' = IF name = RpcUpcoming THEN FALSE
                         ELSE upcomingModified
  /\ allModified' = IF name = RpcAll THEN FALSE ELSE allModified

\* loadData resumes after the call it awaits; callRPC never throws, so the
\* catch block with setError is not entered
loadDataStep(ok) ==
  /\ dashPc > 0
  /\ LET name == LoadDataOrder[dashPc]
         r == callRPC(name, ok)
     IN  /\ lastRpcError' = r.logged
         /\ FetchInto(name, r)
         /\ headData' =
              IF ok /\ name \in {RpcTopStats, RpcChart, RpcCallChart}
              THEN headData \cup {name} ELSE headData
  /\ dashPc' = IF dashPc < Len(LoadDataOrder) THEN dashPc + 1 ELSE 0
  /\ dashLoading' = (dashPc < Len(LoadDataOrder))
  /\ UNCHANGED <<nonDashVars, dashError, activeView, progressSortDir,
                 allSortDir, dashSaving, dashCalls, alertMsg, sortKeyVars,
                 pageVars, draftVars, savingCell, saveQueue,
                 focusCell>>

\* fetchUpcomingMeetings / fetchProgressMonitoring / fetchAllRecords resume
\* after their call, when called outside loadData
fetchStep(name, ok) ==
  /\ name \in dashCalls \ {RpcUpdate}
  /\ dashCalls' = dashCalls \ {name}
  /\ LET r == callRPC(name, ok)
     IN  lastRpcError' = r.logged /\ FetchInto(name, r)
  /\ UNCHANGED <<nonDashVars, dashLoading, dashError, activeView,
                 progressSortDir, allSortDir, dashSaving, headData, dashPc,
                 alertMsg, sortKeyVars, pageVars, draftVars, savingCell,
                 saveQueue,
                 focusCell>>

\* the dashboard renders its tables only when loading is false
DashShown == ~dashLoading /\ dashError = ""

\* the tables are there to click on, no alert() holds the page, and no
\* cell has the focus: a click elsewhere takes the focus from it first
CanClick == DashShown /\ alertMsg = Null /\ focusCell = "none"

\* cell can be typed in, or left
CanEdit(cell) ==
  DashShown /\ alertMsg = Null /\ focusCell \in {"none", cell}

\* a switch of the view that sends All Records back to its first page
setActiveViewFirstPage(v) ==
  /\ CanClick
  /\ activeView' = v
  /\ allPage' = 1
  /\ UNCHANGED <<nonDashVars, dashLoading, dashError, upcomingRows,
                 progressRows, allRows, progressSortDir, allSortDir,
                 dashSaving, headData, dashPc, dashCalls, lastRpcError,
                 alertMsg, sortKeyVars, progressPage, draftVars,
                 modifiedVars, savingCell, saveQueue,
                 focusCell>>

setActiveView(v) ==
  /\ CanClick
  /\ activeView' = v
  /\ UNCHANGED <<nonDashVars, dashLoading, dashError, upcomingRows,
                 progressRows, allRows, progressSortDir, allSortDir,
                 dashSaving, headData, dashPc, dashCalls, lastRpcError,
                 alertMsg, viewVars>>

handleRefreshUpcoming ==
  /\ CanClick /\ activeView = "upcoming"
  /\ RpcUpcoming \notin dashCalls
  /\ upcomingDrafts' = {}
  /\ upcomingModified' = FALSE
  /\ dashCalls' = dashCalls \cup {RpcUpcoming}
  /\ UNCHANGED <<nonDashVars, dashLoading, dashError, activeView,
                 upcomingRows, progressRows, allRows, progressSortDir,
                 allSortDir, dashSaving, headData, dashPc, lastRpcError,
                 alertMsg, sortKeyVars, pageVars, allDrafts, allModified,
                 savingCell, saveQueue,
                 focusCell>>

Flip(dir) == IF dir = "asc" THEN "desc" ELSE "asc"

\* the columns whose headers are clicked, the first being the column the
\* view is sorted by when the page loads
UpcomingKeys == <<"BOP_Date", "client">>
ProgressKeys == <<"client_name", "last_call_date">>
AllKeys == <<"created_at", "client">>

\* the cells that are edited, named as the table names them: row id and
\* column
DashCells == {"1:status"}

\* a click on a column header of the Upcoming Meetings table, which is
\* sorted in the browser
handleUpcomingSort(key) ==
  /\ CanClick /\ activeView = "upcoming"
  /\ IF upcomingSortKey = key
     THEN upcomingSortDir' = Flip(upcomingSortDir)
          /\ UNCHANGED upcomingSortKey
     ELSE upcomingSortKey' = key /\ upcomingSortDir' = "asc"
  /\ UNCHANGED <<nonDashVars, dashLoading, dashError, activeView,
                 upcomingRows, progressRows, allRows, progressSortDir,
                 allSortDir, dashSaving, headData, dashPc, dashCalls,
                 lastRpcError, alertMsg, progressSortKey, allSortKey,
                 pageVars, draftVars, modifiedVars, savingCell, saveQueue,
                 focusCell>>

\* a click on a column header of the Progress Monitoring table, and the
\* effect on progressSortKey and progressSortDir that follows it
handleProgressSort(key) ==
  /\ CanClick /\ activeView = "progress"
  /\ RpcProgress \notin dashCalls
  /\ IF progressSortKey = key
     THEN progressSortDir' = Flip(progressSortDir)
          /\ UNCHANGED progressSortKey
     ELSE progressSortKey' = key /\ progressSortDir' = "asc"
  /\ dashCalls' = dashCalls \cup {RpcProgress}
  /\ UNCHANGED <<nonDashVars, dashLoading, dashError, activeView,
                 upcomingRows, progressRows, allRows, allSortDir, dashSaving,
                 headData, dashPc, lastRpcError, alertMsg, upcomingSortKey,
                 upcomingSortDir, allSortKey, pageVars, draftVars,
                 modifiedVars, savingCell, saveQueue,
                 focusCell>>

handleAllSort(key) ==
  /\ CanClick /\ activeView = "all"
  /\ RpcAll \notin dashCalls
  /\ IF allSortKey = key
     THEN allSortDir' = Flip(allSortDir) /\ UNCHANGED allSortKey
     ELSE allSortKey' = key /\ allSortDir' = "asc"
  /\ dashCalls' = dashCalls \cup {RpcAll}
  /\ UNCHANGED <<nonDashVars, dashLoading, dashError, activeView,
                 upcomingRows, progressRows, allRows, progressSortDir,
                 dashSaving, headData, dashPc, lastRpcError, alertMsg,
                 upcomingSortKey, upcomingSortDir, progressSortKey, pageVars,
                 draftVars, modifiedVars, savingCell, saveQueue,
                 focusCell>>

\* handleUpdateRow up to its await, as view's table calls it for cell
StartUpdate(view, cell) ==
  /\ dashSaving' = view
  /\ savingCell' = cell
  /\ upcomingModified' = IF view = "upcoming" THEN TRUE ELSE upcomingModified
  /\ allModified' = IF view = "all" THEN TRUE ELSE allModified
  /\ dashCalls' = dashCalls \cup {RpcUpdate}

\* handleUpdateRow called by the table: a cell loses the focus, or Save is
\* clicked in the popup of a cell
handleUpdateRow(cell) ==
  /\ CanEdit(cell) /\ activeView \in {"upcoming", "all"}
  /\ RpcUpdate \notin dashCalls
  /\ StartUpdate(activeView, cell)
  /\ focusCell' = "none"
  /\ UNCHANGED <<nonDashVars, dashLoading, dashError, activeView,
                 upcomingRows, progressRows, allRows, progressSortDir,
                 allSortDir, headData, dashPc, lastRpcError, alertMsg,
                 sortKeyVars, pageVars, draftVars, saveQueue>>

\* handleUpdateRow after its await, in the view that called it; when
\* handleSaveChanges awaits it, the loop of handleSaveChanges goes on with
\* the next draft or ends with its two resets
handleUpdateRowStep(ok) ==
  /\ RpcUpdate \in dashCalls
  /\ lastRpcError' = callRPC(RpcUpdate, ok).logged
  /\ alertMsg' = IF ok THEN alertMsg ELSE MsgAlertUpdate
  /\ LET upcomingLeft == IF ok /\ dashSaving = "upcoming"
                         THEN upcomingDrafts \ {savingCell}
                         ELSE upcomingDrafts
         allLeft == IF ok /\ dashSaving = "all"
                    THEN allDrafts \ {savingCell} ELSE allDrafts
     IN  IF saveQueue.view = "none"
         THEN /\ dashCalls' = dashCalls \ {RpcUpdate}
              /\ dashSaving' = "none"
              /\ savingCell' = "none"
              /\ upcomingDrafts' = upcomingLeft
              /\ allDrafts' = allLeft
              /\ UNCHANGED <<modifiedVars, saveQueue>>
         ELSE IF saveQueue.cells # << >>
         THEN /\ StartUpdate(saveQueue.view, Head(saveQueue.cells))
              /\ saveQueue' = [saveQueue EXCEPT !.cells = Tail(@)]
              /\ upcomingDrafts' = upcomingLeft
              /\ allDrafts' = allLeft
         ELSE /\ dashCalls' = dashCalls \ {RpcUpdate}
              /\ dashSaving' = "none"
              /\ savingCell' = "none"
              /\ saveQueue' = NoQueue
              /\ upcomingDrafts' = IF saveQueue.view = "upcoming" THEN {}
                                   ELSE upcomingLeft
              /\ allDrafts' = IF saveQueue.view = "all" THEN {} ELSE allLeft
              /\ upcomingModified' = IF saveQueue.view = "upcoming"
                                     THEN FALSE ELSE upcomingModified
              /\ allModified' = IF saveQueue.view = "all" THEN FALSE
                                ELSE allModified
  /\ UNCHANGED <<nonDashVars, dashLoading, dashError, activeView,
                 upcomingRows, progressRows, allRows, progressSortDir,
                 allSortDir, headData, dashPc, sortKeyVars, pageVars,
                 focusCell>>

\* handleSaveChanges up to its first await: the drafts of the active view
\* are sent one after the other; with none to send it ends at once
RECURSIVE CellSeq(_)
CellSeq(cells) ==
  IF cells = {} THEN << >>
  ELSE LET c == CHOOSE c \in cells : TRUE
       IN  <<c>> \o CellSeq(cells \ {c})

handleSaveChanges ==
  /\ CanClick /\ activeView \in {"upcoming", "all"}
  /\ IF activeView = "upcoming" THEN upcomingModified ELSE allModified
  /\ RpcUpdate \notin dashCalls
  /\ saveQueue = NoQueue
  /\ LET entries == CellSeq(IF activeView = "upcoming" THEN upcomingDrafts
                            ELSE allDrafts)
     IN  IF entries = << >>
         THEN /\ upcomingModified' = IF activeView = "upcoming" THEN FALSE
                                     ELSE upcomingModified
              /\ allModified' = IF activeView = "all" THEN FALSE
                                ELSE allModified
              /\ UNCHANGED <<dashSaving, savingCell, dashCalls, saveQueue>>
         ELSE /\ StartUpdate(activeView, Head(entries))
              /\ saveQueue' = [view |-> activeView, cells |-> Tail(entries)]
  /\ UNCHANGED <<nonDashVars, dashLoading, dashError, activeView,
                 upcomingRows, progressRows, allRows, progressSortDir,
                 allSortDir, headData, dashPc, lastRpcError, alertMsg,
                 sortKeyVars, pageVars, draftVars, focusCell>>

\* onChange of a cell of the active view's table
setDrafts(cell) ==
  /\ CanEdit(cell) /\ activeView \in {"upcoming", "all"}
  /\ focusCell' = cell
  /\ ~(dashSaving = activeView /\ savingCell = cell)
  /\ upcomingDrafts' = IF activeView = "upcoming"
                       THEN upcomingDrafts \cup {cell} ELSE upcomingDrafts
  /\ allDrafts' = IF activeView = "all" THEN allDrafts \cup {cell}
                  ELSE allDrafts
  /\ UNCHANGED <<nonDashVars, dashLoading, dashError, activeView,
                 upcomingRows, progressRows, allRows, progressSortDir,
                 allSortDir, dashSaving, headData, dashPc, dashCalls,
                 lastRpcError, alertMsg, sortKeyVars, pageVars, modifiedVars,
                 savingCell, saveQueue>>

\* 'Refresh' of the All Records view
refreshAll ==
  /\ CanClick /\ activeView = "all"
  /\ RpcAll \notin dashCalls
  /\ allDrafts' = {}
  /\ allModified' = FALSE
  /\ dashCalls' = dashCalls \cup {RpcAll}
  /\ UNCHANGED <<nonDashVars, dashLoading, dashError, activeView,
                 upcomingRows, progressRows, allRows, progressSortDir,
                 allSortDir, dashSaving, headData, dashPc, lastRpcError,
                 alertMsg, sortKeyVars, pageVars, upcomingDrafts,
                 upcomingModified, savingCell, saveQueue,
                 focusCell>>

\* the pages the backend reports for a view: MaxDashPage with rows, none
\* after a failed call
MaxDashPage == 2

PageCount(rows) == IF rows = "rows" THEN MaxDashPage ELSE 0

\* 'Prev' (by = -1) and 'Next' (by = 1) of the All Records view, and the
\* effect on allPage that follows
setAllPage(by) ==
  /\ CanClick /\ activeView = "all"
  /\ RpcAll \notin dashCalls
  /\ IF by = 1
     THEN /\ allPage # PageCount(allRows)
          /\ allPage' = Min(PageCount(allRows), allPage + 1)
     ELSE /\ allPage # 1
          /\ allPage' = Max(1, allPage - 1)
  /\ dashCalls' = IF allPage' # allPage
                  THEN dashCalls \cup {RpcAll} ELSE dashCalls
  /\ UNCHANGED <<nonDashVars, dashLoading, dashError, activeView,
                 upcomingRows, progressRows, allRows, progressSortDir,
                 allSortDir, dashSaving, headData, dashPc, lastRpcError,
                 alertMsg, sortKeyVars, progressPage, draftVars,
                 modifiedVars, savingCell, saveQueue,
                 focusCell>>

\* the user closes the alert
AlertClosed ==
  /\ alertMsg # Null
  /\ alertMsg' = Null
  /\ UNCHANGED <<nonDashVars, dashLoading, dashError, activeView,
                 upcomingRows, progressRows, allRows, progressSortDir,
                 allSortDir, dashSaving, headData, dashPc, dashCalls,
                 lastRpcError, viewVars>>

(***************************************************************************)
(* Prospect page: data                                                     *)
(***************************************************************************)
\* null of a text column
NullText == <<"null">>

\* String.prototype.trim
RECURSIVE TrimLeft(_)
TrimLeft(t) ==
  IF t # << >> /\ Head(t) = " " THEN TrimLeft(Tail(t)) ELSE t

RECURSIVE TrimRight(_)
TrimRight(t) ==
  IF t # << >> /\ t[Len(t)] = " " THEN TrimRight(SubSeq(t, 1, Len(t) - 1))
  ELSE t

Trim(t) == TrimRight(TrimLeft(t))

\* s ?? ''
OrEmpty(t) == IF t = NullText THEN << >> ELSE t

toNull(t) ==
  LET v == Trim(OrEmpty(t)) IN IF Len(v) > 0 THEN v ELSE NullText

\* the characters the model's texts are written in: lower-case letters,
\* their capitals, and in Collation the order localeCompare gives them
LowerCase == <<"a", "b", "e", "i", "l", "n", "o", "s", "t", "x", "y">>
UpperCase == <<"A", "B", "E", "I", "L", "N", "O", "S", "T", "X", "Y">>
Digits == {"1", "5"}
UnicodeDash == "u2013"
Collation == <<" ", "-", "1", "5">> \o LowerCase

IndexIn(seq, c) ==
  IF \E k \in 1..Len(seq) : seq[k] = c
  THEN CHOOSE k \in 1..Len(seq) : seq[k] = c
  ELSE 0

\* String.prototype.toLowerCase
toLowerCase(t) ==
  [k \in 1..Len(t) |->
     IF IndexIn(UpperCase, t[k]) > 0 THEN LowerCase[IndexIn(UpperCase, t[k])]
     ELSE t[k]]

\* String.prototype.toUpperCase
toUpperCase(t) ==
  [k \in 1..Len(t) |->
     IF IndexIn(LowerCase, t[k]) > 0 THEN UpperCase[IndexIn(LowerCase, t[k])]
     ELSE t[k]]

TextTexas == <<"T", "e", "x", "a", "s">>

\* the table of the states, of which the model keeps Texas
STATES == <<[abbr |-> <<"T", "X">>, name |-> TextTexas]>>

\* raw.split('-').slice(-1)[0]: what follows the last '-'
LastPart(raw) ==
  LET dashes == {k \in 1..Len(raw) : raw[k] = "-"}
      last == CHOOSE k \in dashes : \A j \in dashes : j <= k
  IN  SubSeq(raw, last + 1, Len(raw))

stateToName(v) ==
  LET raw == Trim(OrEmpty(v))
      abbr == toUpperCase(raw)
  IN  IF raw = << >> THEN << >>
      ELSE IF /\ \E k \in 1..Len(raw) : raw[k] = "-"
              /\ Trim(LastPart(raw)) # << >>
      THEN Trim(LastPart(raw))
      ELSE IF \E k \in 1..Len(STATES) : STATES[k].abbr = abbr
      THEN STATES[CHOOSE k \in 1..Len(STATES) : STATES[k].abbr = abbr].name
      ELSE raw

TextYes == <<"Y", "e", "s">>
TextNo == <<"N", "o">>

yesNoNormalize(v) ==
  LET raw == Trim(OrEmpty(v))
      s == toLowerCase(raw)
  IN  IF s = << >> THEN << >>
      ELSE IF s \in {<<"y">>, <<"y", "e", "s">>, <<"t", "r", "u", "e">>}
      THEN TextYes
      ELSE IF s \in {<<"n">>, <<"n", "o">>, <<"f", "a", "l", "s", "e">>}
      THEN TextNo
      ELSE raw

\* no helper has been called on its own
CallIdle == callArg = NullText /\ callRes = NullText

\* the two sessions, with the record as loadData read it
Sessions == {"s1", "s2"}

NoWrite == [value |-> "none", stage |-> "none"]

SessionAtRest(v) ==
  [row |-> v, write |-> NoWrite, fetching |-> FALSE, own |-> "none"]

SessionIdle ==
  /\ backendValue = "old"
  /\ arrivals = << >>
  /\ sessions = [s \in Sessions |-> SessionAtRest("old")]

(***************************************************************************)
(* Dashboard tables: the editable cells                                    *)
(***************************************************************************)
\* the views whose tables are given drafts, savingId and onUpdate
EditViews == {"upcoming", "all"}

DATE_TIME_KEYS == {"BOP_Date", "CalledOn", "Followup_Date", "FollowUp_Date",
                   "Issued"}

WRAP_KEYS == {"Comment", "Remark", "Product", "referred_by",
              "immigration_status", "work_details"}

viewOnlyPopupKeys == {"Product", "referred_by", "immigration_status",
                      "work_details"}

\* the cells the model edits, each the row id and the column it is named
\* by (`${r.id}:${k}`): a date-time input and a text shown in a popup
TableCells == {<<1, "BOP_Date">>, <<2, "Comment">>}

RowIdOf(cell) == cell[1]
KeyOf(cell) == cell[2]

\* the column is edited in a popup with Save and Cancel
IsPopupKey(key) == key \in WRAP_KEYS \ viewOnlyPopupKeys

\* Values are texts.  A time stamp is written <<minute, second>> as the
\* backend returns it and as toISOString gives it, and <<minute>> as a
\* datetime-local input shows it ('yyyy-MM-ddTHH:mm').
EmptyText == << >>
NoDraft == <<"undefined">>
NoCell == <<0, "none">>
NullId == 0

\* new Date(text) followed by toISOString(): an input text has no seconds
toISOString(text) ==
  IF Len(text) = 1 THEN <<text[1], "s00">> ELSE text

\* the text an input shows for the value v of column key in a row
getCellValueForInput(v, key) ==
  IF v = NullText THEN EmptyText
  ELSE IF key \in DATE_TIME_KEYS THEN <<v[1]>>
  ELSE v

\* the p_<key> parameter handleUpdateRow sends for value
PayloadValue(key, value) ==
  IF key \in DATE_TIME_KEYS
  THEN (IF value = EmptyText THEN NullText ELSE toISOString(value))
  ELSE value

\* the state of one view's table with the rows rs
TableAtRest(rs) ==
  [rows |-> rs,
   drafts |-> [c \in TableCells |-> NoDraft],
   savingId |-> NullId,
   modified |-> FALSE,
   openCell |-> NoCell]

NoLoop == [view |-> "none", todo |-> << >>, started |-> {}, written |-> {}]

\* the client records as the backend holds them when the page loads
StoredFields ==
  [c \in TableCells |->
     IF KeyOf(c) \in DATE_TIME_KEYS THEN <<"m1", "s30">> ELSE <<"a">>]

\* DashboardPage's useState initial values for the tables
TableIdle ==
  /\ table = [v \in EditViews |-> TableAtRest(<< >>)]
  /\ clientFields = StoredFields
  /\ updates = << >>
  /\ saveLoop = NoLoop
  /\ cellFocus = NoCell

(***************************************************************************)
(* Dashboard tables: the paged views                                       *)
(***************************************************************************)
PagedViews == {"progress", "all"}

\* no rows: the view's initial [] and the [] set after a failed call
NoRows == [page |-> 0, sortKey |-> "none", sortDir |-> "none"]

ALL_PAGE_SIZE == 10
PROGRESS_PAGE_SIZE == 10

\* what a view shows after an answer: rows and total
Shown(rs, n) == [rows |-> rs, total |-> n]

\* useState initial values of a paged view; latest is what the call made
\* last for the view returned, or Pending as long as it is awaited
Pending == Shown(NoRows, -1)

ListingAtRest(view) ==
  [page |-> 1,
   sortKey |-> IF view = "progress" THEN "client_name" ELSE "created_at",
   sortDir |-> IF view = "progress" THEN "asc" ELSE "desc",
   rows |-> NoRows,
   total |-> 0,
   latest |-> Shown(NoRows, 0)]

PagingIdle ==
  /\ listing = [v \in PagedViews |-> ListingAtRest(v)]
  /\ fetches = << >>


\* The Prospect columns the required-field check reads, and of the others
\* state, which the form shows through stateToName, and top25, one of the
\* columns it shows through yesNoNormalize.
StoredRow(i, f, l, ph, st, t25) ==
  [id |-> i, first_name |-> f, last_name |-> l, phone |-> ph, state |-> st,
   top25 |-> t25]

\* a row with no state and no top25
Row(i, f, l, ph) == StoredRow(i, f, l, ph, NullText, NullText)

NoRow == Row(0, << >>, NullText, NullText)

Form(f, l, ph) ==
  [first_name |-> f, last_name |-> l, phone |-> ph, state |-> << >>,
   top25 |-> << >>]

emptyForm == Form(<< >>, << >>, << >>)

toProspectForm(p) ==
  [first_name |-> OrEmpty(p.first_name), last_name |-> OrEmpty(p.last_name),
   phone |-> OrEmpty(p.phone), state |-> stateToName(p.state),
   top25 |-> yesNoNormalize(p.top25)]

requiredFilledNoTrim(f) ==
  /\ Trim(f.first_name) # << >>
  /\ Trim(f.last_name) # << >>
  /\ f.phone # << >>

requiredFilled(f) ==
  /\ Trim(f.first_name) # << >>
  /\ Trim(f.last_name) # << >>
  /\ Trim(f.phone) # << >>

\* the payload of insert and update
Payload(f) ==
  [first_name |-> Trim(f.first_name), last_name |-> toNull(f.last_name),
   phone |-> toNull(f.phone), state |-> toNull(f.state),
   top25 |-> toNull(f.top25)]

NoReq == [op |-> "none", id |-> 0, payload |-> Payload(emptyForm)]

\* prospects.find((x) => x.id === id), or NoRow
FindRow(ps, i) ==
  IF \E k \in 1..Len(ps) : ps[k].id = i
  THEN ps[CHOOSE k \in 1..Len(ps) :
            ps[k].id = i /\ \A j \in 1..(k - 1) : ps[j].id # i]
  ELSE NoRow

\* select('*').order('id', {ascending: false})
RECURSIVE OrderByIdDesc(_)
OrderByIdDesc(rows) ==
  IF rows = << >> THEN << >>
  ELSE LET k == CHOOSE k \in 1..Len(rows) :
                  \A j \in 1..Len(rows) : rows[j].id <= rows[k].id
           rest == [j \in 1..(Len(rows) - 1) |->
                      IF j < k THEN rows[j] ELSE rows[j + 1]]
       IN  <<rows[k]>> \o OrderByIdDesc(rest)

RECURSIVE DeleteById(_, _)
DeleteById(rows, i) ==
  IF rows = << >> THEN << >>
  ELSE IF Head(rows).id = i THEN DeleteById(Tail(rows), i)
       ELSE <<Head(rows)>> \o DeleteById(Tail(rows), i)

UpdateById(rows, i, pl) ==
  [k \in 1..Len(rows) |->
     IF rows[k].id = i
     THEN StoredRow(i, pl.first_name, pl.last_name, pl.phone, pl.state,
                    pl.top25)
     ELSE rows[k]]

MsgMissing == "Missing required fields (First Name, Last Name, Phone)."
MsgSelect == "Select a row first."
MsgNotFound == "Row not found."
MsgLoadError == "Error loading prospects"
MsgSaveError == "Error saving"
MsgUpdateError == "Error updating"
MsgDeleteError == "Error deleting"

\* bounds of the prospect model
MaxRows == 1
MaxId == 2
MaxLoads == 1
MaxTimers == 2

\* setToast: one message shown, the other cleared, a 5 s timer started.
\* Timers beyond MaxTimers are merged: every timer does the same thing.
setToastError(msg) ==
  /\ errorMsg' = msg
  /\ successMsg' = Null
  /\ toastTimers' = Min(toastTimers + 1, MaxTimers)

setToastSuccess(msg) ==
  /\ successMsg' = msg
  /\ errorMsg' = Null
  /\ toastTimers' = Min(toastTimers + 1, MaxTimers)

\* the setTimeout callback of setToast
ToastTimeout ==
  /\ toastTimers > 0
  /\ toastTimers' = toastTimers - 1
  /\ errorMsg' = Null
  /\ successMsg' = Null
  /\ UNCHANGED <<nonProspectVars, dbProspects, dbNextId, prospects,
                 loading, saving, mode, showCard, activeId, original, form,
                 writeReq, loadsPlain, loadsClose>>

\* the effect "Ensure form is updated when entering edit mode": with the
\* state (m, a, sc, ps) after the step, the form and original it leaves
EditSync(m, a, sc, ps, f, o) ==
  LET p == FindRow(ps, a) IN
  IF m = "edit" /\ a # 0 /\ sc /\ p # NoRow /\ toProspectForm(p) # f
  THEN [form |-> toProspectForm(p), original |-> p]
  ELSE [form |-> f, original |-> o]

\* the prospect page before it is opened
ProspectIdle ==
  /\ dbProspects = << >>
  /\ dbNextId = 1
  /\ prospects = << >>
  /\ loading = FALSE
  /\ saving = FALSE
  /\ mode = "new"
  /\ showCard = FALSE
  /\ activeId = 0
  /\ original = NoRow
  /\ form = emptyForm
  /\ errorMsg = Null
  /\ successMsg = Null
  /\ toastTimers = 0
  /\ writeReq = NoReq
  /\ loadsPlain = 0
  /\ loadsClose = 0

\* the value of the option 'All Results'
ResultAll == <<"A", "L", "L">>

\* the useState initial values of the list controls
ListIdle ==
  /\ search = << >>
  /\ resultFilter = ResultAll
  /\ page = 1
  /\ sortConfig = [key |-> Null, direction |-> "asc"]

(***************************************************************************)
(* Prospect page: handlers                                                 *)
(***************************************************************************)
FB == <<"B">>

\* what the user types into the three inputs
TypedFirst == {<<" ", "B">>}
TypedLast == {<< >>, <<"A">>}
TypedPhone == {<<" ">>, <<"A">>}

Typed(k) ==
  CASE k = "first_name" -> TypedFirst
    [] k = "last_name" -> TypedLast
    [] k = "phone" -> TypedPhone

FormKeys == {"first_name", "last_name", "phone"}

\* onChange of a form input
SetField(k, v) ==
  /\ showCard
  /\ ~saving
  /\ form' = [form EXCEPT ![k] = v]
  /\ UNCHANGED <<nonProspectVars, dbProspects, dbNextId, prospects, loading,
                 saving, mode, showCard, activeId, original, errorMsg,
                 successMsg, toastTimers, writeReq, loadsPlain, loadsClose>>

beginNewProspect ==
  /\ ~saving
  /\ mode' = "new"
  /\ activeId' = 0
  /\ original' = NoRow
  /\ form' = emptyForm
  /\ showCard' = TRUE
  /\ UNCHANGED <<nonProspectVars, dbProspects, dbNextId, prospects, loading,
                 saving, errorMsg, successMsg, toastTimers, writeReq,
                 loadsPlain, loadsClose>>

handleSelectRow(p) ==
  /\ ~saving
  /\ activeId' = p.id
  /\ LET e == EditSync(mode, p.id, showCard, prospects, form, original)
     IN  form' = e.form /\ original' = e.original
  /\ UNCHANGED <<nonProspectVars, dbProspects, dbNextId, prospects, loading,
                 saving, mode, showCard, errorMsg, successMsg, toastTimers,
                 writeReq, loadsPlain, loadsClose>>

\* the part handleShowProspect and handleTopAction share: open the selected
\* row for editing
BeginEdit ==
  IF activeId = 0
  THEN /\ setToastError(MsgSelect)
       /\ UNCHANGED <<original, form, mode, showCard>>
  ELSE LET p == FindRow(prospects, activeId) IN
       IF p = NoRow
       THEN /\ setToastError(MsgNotFound)
            /\ UNCHANGED <<original, form, mode, showCard>>
       ELSE /\ original' = p
            /\ form' = toProspectForm(p)
            /\ mode' = "edit"
            /\ showCard' = TRUE
            /\ UNCHANGED <<errorMsg, successMsg, toastTimers>>

handleShowProspect ==
  /\ ~saving
  /\ BeginEdit
  /\ UNCHANGED <<nonProspectVars, dbProspects, dbNextId, prospects, loading,
                 saving, activeId, writeReq, loadsPlain, loadsClose>>

\* room, within the bounds, for one more write and the load that follows it
RoomForWrite == loadsPlain + loadsClose < MaxLoads

saveNew ==
  /\ ~saving
  /\ IF ~requiredFilled(form)
     THEN /\ setToastError(MsgMissing)
          /\ UNCHANGED <<saving, writeReq>>
     ELSE /\ RoomForWrite /\ Len(dbProspects) < MaxRows /\ dbNextId <= MaxId
          /\ saving' = TRUE
          /\ errorMsg' = Null
          /\ writeReq' = [op |-> "insert", id |-> 0, payload |-> Payload(form)]
          /\ UNCHANGED <<successMsg, toastTimers>>
  /\ UNCHANGED <<nonProspectVars, dbProspects, dbNextId, prospects, loading,
                 mode, showCard, activeId, original, form, loadsPlain,
                 loadsClose>>

saveEdit ==
  /\ ~saving
  /\ IF ~requiredFilled(form)
     THEN /\ setToastError(MsgMissing)
          /\ UNCHANGED <<saving, writeReq>>
     ELSE IF activeId = 0
     THEN UNCHANGED <<saving, writeReq, errorMsg, successMsg, toastTimers>>
     ELSE /\ RoomForWrite
          /\ saving' = TRUE
          /\ errorMsg' = Null
          /\ writeReq' = [op |-> "update", id |-> activeId,
                          payload |-> Payload(form)]
          /\ UNCHANGED <<successMsg, toastTimers>>
  /\ UNCHANGED <<nonProspectVars, dbProspects, dbNextId, prospects, loading,
                 mode, showCard, activeId, original, form, loadsPlain,
                 loadsClose>>

handleTopAction ==
  IF showCard /\ mode = "edit"
  THEN saveEdit
  ELSE /\ ~saving
       /\ BeginEdit
       /\ UNCHANGED <<nonProspectVars, dbProspects, dbNextId, prospects,
                      loading, saving, activeId, writeReq, loadsPlain,
                      loadsClose>>

handleCloseEdit ==
  /\ ~saving
  /\ showCard' = FALSE
  /\ activeId' = 0
  /\ original' = NoRow
  /\ form' = emptyForm
  /\ UNCHANGED <<nonProspectVars, dbProspects, dbNextId, prospects, loading,
                 saving, mode, errorMsg, successMsg, toastTimers, writeReq,
                 loadsPlain, loadsClose>>

\* confirmed: the answer to confirm('Delete this prospect?')
handleDelete(confirmed) ==
  /\ ~saving
  /\ IF activeId = 0
     THEN /\ setToastError(MsgSelect)
          /\ UNCHANGED <<saving, writeReq>>
     ELSE IF ~confirmed
     THEN UNCHANGED <<saving, writeReq, errorMsg, successMsg, toastTimers>>
     ELSE /\ RoomForWrite
          /\ saving' = TRUE
          /\ errorMsg' = Null
          /\ writeReq' = [op |-> "delete", id |-> activeId,
                          payload |-> Payload(emptyForm)]
          /\ UNCHANGED <<successMsg, toastTimers>>
  /\ UNCHANGED <<nonProspectVars, dbProspects, dbNextId, prospects, loading,
                 mode, showCard, activeId, original, form, loadsPlain,
                 loadsClose>>

\* saveNew after its await: the backend answers the insert
InsertResponse(ok) ==
  /\ writeReq.op = "insert"
  /\ writeReq' = NoReq
  /\ saving' = FALSE
  /\ IF ok
     THEN /\ dbProspects' =
               Append(dbProspects,
                      Row(dbNextId, writeReq.payload.first_name,
                          writeReq.payload.last_name, writeReq.payload.phone))
          /\ dbNextId' = dbNextId + 1
          /\ setToastSuccess("Saved.")
          /\ showCard' = FALSE
          /\ mode' = "new"
          /\ activeId' = 0
          /\ original' = NoRow
          /\ form' = emptyForm
          /\ loading' = TRUE
          /\ loadsPlain' = loadsPlain + 1
     ELSE /\ setToastError(MsgSaveError)
          /\ UNCHANGED <<dbProspects, dbNextId, showCard, mode, activeId,
                         original, form, loading, loadsPlain>>
  /\ UNCHANGED <<nonProspectVars, prospects, loadsClose>>

\* saveEdit after its first await: the backend answers the update
UpdateResponse(ok) ==
  /\ writeReq.op = "update"
  /\ writeReq' = NoReq
  /\ saving' = FALSE
  /\ IF ok
     THEN /\ dbProspects' = UpdateById(dbProspects, writeReq.id, writeReq.payload)
          /\ setToastSuccess("Updated.")
          /\ loading' = TRUE
          /\ loadsClose' = loadsClose + 1
     ELSE /\ setToastError(MsgUpdateError)
          /\ UNCHANGED <<dbProspects, loading, loadsClose>>
  /\ UNCHANGED <<nonProspectVars, dbNextId, prospects, mode, showCard,
                 activeId, original, form, loadsPlain>>

\* handleDelete after its await: the backend answers the delete
DeleteResponse(ok) ==
  /\ writeReq.op = "delete"
  /\ writeReq' = NoReq
  /\ saving' = FALSE
  /\ IF ok
     THEN /\ dbProspects' = DeleteById(dbProspects, writeReq.id)
          /\ setToastSuccess("Deleted.")
          /\ showCard' = FALSE
          /\ activeId' = 0
          /\ original' = NoRow
          /\ form' = emptyForm
          /\ loading' = TRUE
          /\ loadsPlain' = loadsPlain + 1
     ELSE /\ setToastError(MsgDeleteError)
          /\ UNCHANGED <<dbProspects, showCard, activeId, original, form,
                         loading, loadsPlain>>
  /\ UNCHANGED <<nonProspectVars, dbNextId, prospects, mode, loadsClose>>

\* loadProspects after its await: the backend answers the select; thenClose
\* is the setShowCard(false) of a saveEdit that awaited this load
LoadResponse(thenClose, ok) ==
  /\ IF thenClose
     THEN loadsClose > 0 /\ loadsClose' = loadsClose - 1 /\ loadsPlain' = loadsPlain
     ELSE loadsPlain > 0 /\ loadsPlain' = loadsPlain - 1 /\ loadsClose' = loadsClose
  /\ loading' = FALSE
  /\ showCard' = IF thenClose THEN FALSE ELSE showCard
  /\ IF ok
     THEN /\ prospects' = OrderByIdDesc(dbProspects)
          /\ UNCHANGED <<errorMsg, successMsg, toastTimers>>
     ELSE /\ setToastError(MsgLoadError)
          /\ prospects' = << >>
  /\ LET e == EditSync(mode, activeId, showCard', prospects', form, original)
     IN  form' = e.form /\ original' = e.original
  /\ UNCHANGED <<nonProspectVars, dbProspects, dbNextId, saving, mode,
                 activeId, writeReq>>

(***************************************************************************)
(* Prospect page: what the rendered controls allow                         *)
(***************************************************************************)
dirty ==
  /\ original # NoRow
  /\ form # toProspectForm(original)

canTopAction ==
  IF showCard /\ mode = "edit"
  THEN requiredFilled(form) /\ dirty /\ ~saving
  ELSE activeId # 0 /\ ~saving

canBottomAction ==
  IF ~showCard THEN ~saving
  ELSE IF mode = "new" THEN requiredFilled(form) /\ ~saving
  ELSE FALSE

\* 'New Prospect' / 'Save New Prospect'
ClickBottom ==
  /\ canBottomAction
  /\ IF ~showCard THEN beginNewProspect ELSE saveNew

\* 'Edit Prospect' / 'Save'
ClickTop ==
  /\ canTopAction
  /\ handleTopAction

\* 'Save' in the card header
ClickCardSave ==
  /\ showCard /\ mode = "edit"
  /\ ~saving /\ requiredFilled(form)
  /\ saveEdit

ClickShow ==
  /\ activeId # 0 /\ ~saving
  /\ handleShowProspect

ClickDelete(confirmed) ==
  /\ activeId # 0 /\ ~saving
  /\ handleDelete(confirmed)

ClickClose ==
  /\ showCard /\ ~saving
  /\ handleCloseEdit

\* a click on a table row; the rows give way to 'Loading...' while loading
ClickRow(k) ==
  /\ ~loading
  /\ k \in 1..Len(prospects)
  /\ handleSelectRow(prospects[k])

(***************************************************************************)
(* Prospect page: specifications                                           *)
(***************************************************************************)
InitialTables ==
  { << >>, <<Row(1, FB, NullText, NullText)>> }

\* ProspectPage mounted by a signed-in user: every useState initial value,
\* and the mount effect has called loadProspects
ProspectMounted(tables) ==
  /\ SignedInAt(PathProspect)
  /\ DashIdle
  /\ ListIdle
  /\ CallIdle
  /\ SessionIdle
  /\ TableIdle
  /\ PagingIdle
  /\ authResult = Null
  /\ dbProspects \in tables
  /\ dbNextId = Len(dbProspects) + 1
  /\ prospects = << >>
  /\ loading = TRUE
  /\ saving = FALSE
  /\ mode = "new"
  /\ showCard = FALSE
  /\ activeId = 0
  /\ original = NoRow
  /\ form = emptyForm
  /\ errorMsg = Null
  /\ successMsg = Null
  /\ toastTimers = 0
  /\ writeReq = NoReq
  /\ loadsPlain = 1
  /\ loadsClose = 0

InitProspect == ProspectMounted(InitialTables)

BackendAnswers ==
  \/ \E ok \in BOOLEAN : InsertResponse(ok)
  \/ \E ok \in BOOLEAN : UpdateResponse(ok)
  \/ \E ok \in BOOLEAN : DeleteResponse(ok)
  \/ \E thenClose \in BOOLEAN, ok \in BOOLEAN : LoadResponse(thenClose, ok)

\* what the user and the backend do
UserAndBackend ==
  \/ \E k \in FormKeys : \E v \in Typed(k) : SetField(k, v)
  \/ ClickBottom
  \/ ClickTop
  \/ ClickCardSave
  \/ ClickShow
  \/ \E c \in BOOLEAN : ClickDelete(c)
  \/ ClickClose
  \/ \E k \in 1..MaxRows : ClickRow(k)
  \/ BackendAnswers

NextProspect ==
  \/ UserAndBackend
  \/ ToastTimeout

SpecProspect == InitProspect /\ [][NextProspect]_vars

\* The handlers applied directly, whatever the buttons' disabled attribute
\* says: each handler repeats the checks of the button that calls it.  The
\* banner's timers, which no handler reads, are left to SpecProspect.
NextHandlers ==
  \/ UserAndBackend
  \/ saveNew
  \/ saveEdit
  \/ handleTopAction
  \/ handleShowProspect
  \/ \E c \in BOOLEAN : handleDelete(c)

SpecHandlers == InitProspect /\ [][NextHandlers]_vars

\* Edit specification: the page over a stored row with every required
\* column filled, its state and top25 stored in short or in full
FA == <<"A">>

StoredTables ==
  { <<StoredRow(1, FB, FA, FA, <<"T", "X">>, <<"Y">>)>>,
    <<StoredRow(1, FB, FA, FA, TextTexas, TextYes)>> }

InitEdit == ProspectMounted(StoredTables)

SpecEdit == InitEdit /\ [][NextProspect]_vars

(***************************************************************************)
(* Dashboard specification                                                 *)
(***************************************************************************)
\* DashboardPage mounted by a signed-in user: the mount effect has called
\* loadData, which awaits its first call
InitDash ==
  /\ SignedInAt(PathDashboard)
  /\ ViewIdle
  /\ authResult = Null
  /\ ProspectIdle
  /\ ListIdle
  /\ CallIdle
  /\ SessionIdle
  /\ TableIdle
  /\ PagingIdle
  /\ dashLoading = TRUE
  /\ dashError = ""
  /\ activeView = "upcoming"
  /\ upcomingRows = "none"
  /\ progressRows = "none"
  /\ allRows = "none"
  /\ progressSortDir = "asc"
  /\ allSortDir = "desc"
  /\ dashSaving = "none"
  /\ headData = {}
  /\ dashPc = 1
  /\ dashCalls = {}
  /\ lastRpcError = Null
  /\ alertMsg = Null

NextDash ==
  \/ \E ok \in BOOLEAN : loadDataStep(ok)
  \/ \E name \in RpcNames, ok \in BOOLEAN : fetchStep(name, ok)
  \/ \E v \in {"upcoming", "progress", "all"} : setActiveView(v)
  \/ handleRefreshUpcoming
  \/ handleProgressSort(ProgressKeys[1])
  \/ handleAllSort(AllKeys[1])
  \/ \E cell \in DashCells : handleUpdateRow(cell)
  \/ \E ok \in BOOLEAN : handleUpdateRowStep(ok)
  \/ AlertClosed

SpecDash == InitDash /\ [][NextDash]_vars

\* Views specification: the dashboard after loadData has ended well, with
\* the views' sorts, pages, drafts and saves
InitViews ==
  /\ SignedInAt(PathDashboard)
  /\ authResult = Null
  /\ ProspectIdle
  /\ ListIdle
  /\ CallIdle
  /\ SessionIdle
  /\ TableIdle
  /\ PagingIdle
  /\ ViewIdle
  /\ dashLoading = FALSE
  /\ dashError = ""
  /\ activeView = "upcoming"
  /\ upcomingRows = "rows"
  /\ progressRows = "rows"
  /\ allRows = "rows"
  /\ progressSortDir = "asc"
  /\ allSortDir = "desc"
  /\ dashSaving = "none"
  /\ headData = {RpcTopStats, RpcChart, RpcCallChart}
  /\ dashPc = 0
  /\ dashCalls = {}
  /\ lastRpcError = Null
  /\ alertMsg = Null

\* no call for rows is in flight: the specification looks at one at a time
OneFetch == dashCalls \subseteq {RpcUpdate}

\* the calls for rows end well here; SpecDash has them fail
NextViews ==
  \/ \E name \in RpcNames : fetchStep(name, TRUE)
  \/ \E v \in {"upcoming", "progress", "all"} : setActiveView(v)
  \/ OneFetch /\ handleRefreshUpcoming
  \/ OneFetch /\ refreshAll
  \/ \E k \in 1..Len(UpcomingKeys) : handleUpcomingSort(UpcomingKeys[k])
  \/ OneFetch /\ handleProgressSort(ProgressKeys[1])
  \/ OneFetch /\ \E k \in 1..Len(AllKeys) : handleAllSort(AllKeys[k])
  \/ OneFetch /\ \E by \in {-1, 1} : setAllPage(by)
  \/ \E cell \in DashCells : setDrafts(cell)
  \/ \E cell \in DashCells : handleUpdateRow(cell)
  \/ \E ok \in BOOLEAN : handleUpdateRowStep(ok)
  \/ handleSaveChanges
  \/ AlertClosed

SpecViews == InitViews /\ [][NextViews]_vars

(***************************************************************************)
(* Navigation specification                                                *)
(***************************************************************************)
LoginImpls == {"auth_page", "part_002"}

InitialJars ==
  { << >>, <<Cookie(StrOther, StrTrue)>>,
    <<Cookie(AUTH_COOKIE, StrTrue)>> }

NonNavInit ==
  /\ authResult = Null /\ ProspectIdle /\ DashIdle /\ ListIdle /\ CallIdle
  /\ SessionIdle
  /\ TableIdle
  /\ PagingIdle

InitNav ==
  /\ loginImpl \in LoginImpls
  /\ jar \in InitialJars
  /\ location \in OpenPaths
  /\ searchNext \in NextValues
  /\ phase = "mounting"
  /\ pendingNav = NoPath
  /\ email = ""
  /\ password = ""
  /\ destination = "dashboard"
  /\ loginError = Null
  /\ isLoading = FALSE
  /\ nextPath = NoPath
  /\ effectDue = FALSE
  /\ signInPc = "idle"
  /\ inflight = {}
  /\ rowsHeld = {}
  /\ NonNavInit

Mount ==
  \/ LoginMount
  \/ LoginMount2
  \/ LoginRerender2
  \/ ProspectMount
  \/ DashboardMount
  \/ FnaMount
  \/ NotFoundMount

NextNav ==
  \/ \E p \in OpenPaths, n \in NextValues : OpenUrl(p, n)
  \/ CommitNav
  \/ Mount
  \/ \E req \in inflight : BackendResponse(req)
  \/ \E v \in TypedValues : SetEmail(v)
  \/ \E v \in TypedValues : SetPassword(v)
  \/ \E d \in DestinationValues : SetDestination(d)
  \/ signIn
  \/ signInResume
  \/ signIn2
  \/ logout
  \/ handleLogout
  \/ fnaHeaderLogout(TRUE)
  \/ CookieExpires

SpecNav == InitNav /\ [][NextNav]_vars

(***************************************************************************)
(* Redirect chains: only the automatic steps, from any starting URL        *)
(***************************************************************************)
NextRedirect ==
  \/ CommitNav
  \/ Mount

\* the page has run its effects and no navigation is requested
Settled == phase = "mounted" /\ pendingNav = NoPath /\ ~effectDue

SpecRedirect == InitNav /\ [][NextRedirect]_vars /\ WF_vars(NextRedirect)

(***************************************************************************)
(* hasAuthCookie / setAuthCookie / clearAuthCookie on arbitrary cookie jars *)
(***************************************************************************)
MaxCookies == 2

CookieNames == {AUTH_COOKIE, StrXAuth, StrOther}

CookieValues == {StrTrue, StrTruexyz, StrFalse, StrEmpty}

AllCookies == {Cookie(n, v) : n \in CookieNames, v \in CookieValues}

\* jars of at most MaxCookies cookies with distinct names
CookieJars ==
  UNION { { j \in [1..k -> AllCookies] :
              \A a, b \in 1..k : a # b => j[a].name # j[b].name }
          : k \in 0..MaxCookies }

InitCookie ==
  /\ loginImpl = "auth_page"
  /\ jar \in CookieJars
  /\ location = PathAuth
  /\ searchNext = NoPath
  /\ phase = "mounted"
  /\ pendingNav = NoPath
  /\ email = ""
  /\ password = ""
  /\ destination = "dashboard"
  /\ loginError = Null
  /\ isLoading = FALSE
  /\ nextPath = NoPath
  /\ effectDue = FALSE
  /\ signInPc = "idle"
  /\ inflight = {}
  /\ rowsHeld = {}
  /\ NonNavInit

CallHasAuthCookie ==
  /\ authResult' = IF hasAuthCookie(jar) THEN "true" ELSE "false"
  /\ UNCHANGED <<navVars, prospectVars, dashVars, listVars, callVars,
                 sessionVars, tableVars, pagingVars>>

CallSetAuthCookie ==
  /\ jar' = setAuthCookie(jar)
  /\ authResult' = Null
  /\ UNCHANGED <<loginImpl, location, searchNext, phase, pendingNav, email,
                 password, destination, loginError, isLoading, nextPath,
                 effectDue, signInPc, inflight, rowsHeld, prospectVars,
                 dashVars, listVars, callVars, sessionVars, tableVars, pagingVars>>

CallClearAuthCookie ==
  /\ jar' = clearAuthCookie(jar)
  /\ authResult' = Null
  /\ UNCHANGED <<loginImpl, location, searchNext, phase, pendingNav, email,
                 password, destination, loginError, isLoading, nextPath,
                 effectDue, signInPc, inflight, rowsHeld, prospectVars,
                 dashVars, listVars, callVars, sessionVars, tableVars, pagingVars>>

NextCookie ==
  \/ CallHasAuthCookie
  \/ CallSetAuthCookie
  \/ CallClearAuthCookie

SpecCookie == InitCookie /\ [][NextCookie]_vars

(***************************************************************************)
(* Prospect page: list view (search, result filter, sort, pages)           *)
(***************************************************************************)
PAGE_SIZE == 10

\* s.trim().toLowerCase().replace(/[‐-―−]/g, "-")
normText(t) ==
  LET low == toLowerCase(Trim(t))
  IN  [k \in 1..Len(low) |-> IF low[k] = UnicodeDash THEN "-" ELSE low[k]]

\* String.prototype.includes
Includes(t, part) ==
  \E k \in 0..(Len(t) - Len(part)) : SubSeq(t, k + 1, k + Len(part)) = part

\* s.replace(/\D/g, '')
RECURSIVE DigitsOf(_)
DigitsOf(t) ==
  IF t = << >> THEN << >>
  ELSE IF Head(t) \in Digits THEN <<Head(t)>> \o DigitsOf(Tail(t))
       ELSE DigitsOf(Tail(t))

\* the text search without the comparison of the phone digits
searchMatchTextOnly(p, text) ==
  LET norm == normText(text)
  IN  \/ Includes(normText(OrEmpty(p.first_name)), norm)
      \/ Includes(normText(OrEmpty(p.last_name)), norm)
      \/ Includes(normText(OrEmpty(p.spouse_name)), norm)
      \/ Includes(normText(OrEmpty(p.phone)), norm)

\* the callback of arr.filter in "Filter by text search"
searchMatch(p, text) ==
  LET norm == normText(text)
      searchDigits == DigitsOf(text)
      textMatch ==
        \/ Includes(normText(OrEmpty(p.first_name)), norm)
        \/ Includes(normText(OrEmpty(p.last_name)), norm)
        \/ Includes(normText(OrEmpty(p.spouse_name)), norm)
        \/ Includes(normText(OrEmpty(p.phone)), norm)
      phoneMatch ==
        Len(searchDigits) > 0
        /\ Includes(DigitsOf(OrEmpty(p.phone)), searchDigits)
  IN  textMatch \/ phoneMatch

\* the callback of arr.filter in "Filter by result"
resultMatch(p, chosen) == Trim(OrEmpty(p.result)) = chosen

\* String.prototype.localeCompare on the model's characters: letters by
\* the alphabet first, lower case before upper case between equal letters
RECURSIVE LexCompare(_, _, _)
LexCompare(a, b, order) ==
  IF a = << >> \/ b = << >>
  THEN (IF a = b THEN 0 ELSE IF a = << >> THEN -1 ELSE 1)
  ELSE IF Head(a) = Head(b) THEN LexCompare(Tail(a), Tail(b), order)
  ELSE IF IndexIn(order, Head(a)) < IndexIn(order, Head(b)) THEN -1 ELSE 1

localeCompare(a, b) ==
  LET primary == LexCompare(toLowerCase(a), toLowerCase(b), Collation)
  IN  IF primary # 0 THEN primary
      ELSE LexCompare(a, b, Collation \o UpperCase)

\* a comparator that goes by the sort column or the id alone
compareSortColumn(a, b, cfg) ==
  LET asc == cfg.direction = "asc"
  IN  IF cfg.key # Null
      THEN LET aVal == a[cfg.key]
               bVal == b[cfg.key]
           IN  IF aVal = NullText THEN (IF asc THEN 1 ELSE -1)
               ELSE IF bVal = NullText THEN (IF asc THEN -1 ELSE 1)
               ELSE IF asc THEN localeCompare(aVal, bVal)
               ELSE 0 - localeCompare(aVal, bVal)
      ELSE b.id - a.id

\* the comparator after its first two lines: closed rows last, then the
\* sort column or the id
compareSamePriority(a, b, cfg) ==
  LET aIsClosed == a.next_steps = "Closed"
      bIsClosed == b.next_steps = "Closed"
      asc == cfg.direction = "asc"
  IN  IF aIsClosed /\ ~bIsClosed THEN 1
      ELSE IF ~aIsClosed /\ bIsClosed THEN -1
      ELSE IF cfg.key # Null
      THEN LET aVal == a[cfg.key]
               bVal == b[cfg.key]
           IN  IF aVal = NullText THEN (IF asc THEN 1 ELSE -1)
               ELSE IF bVal = NullText THEN (IF asc THEN -1 ELSE 1)
               ELSE IF asc THEN localeCompare(aVal, bVal)
               ELSE 0 - localeCompare(aVal, bVal)
      ELSE b.id - a.id

\* a comparator that does not look at Dissatisfied and Ambitious
compareRowsUnranked(a, b, cfg) == compareSamePriority(a, b, cfg)

\* the comparator handed to arr.sort: negative when a goes before b
compareRows(a, b, cfg) ==
  LET aIsProspect == /\ a.dissatisfied \in {"Yes", "Y"}
                     /\ a.ambitious \in {"Yes", "Y"}
      bIsProspect == /\ b.dissatisfied \in {"Yes", "Y"}
                     /\ b.ambitious \in {"Yes", "Y"}
  IN  IF aIsProspect /\ ~bIsProspect THEN -1
      ELSE IF ~aIsProspect /\ bIsProspect THEN 1
      ELSE compareSamePriority(a, b, cfg)

\* Array.prototype.sort, a stable insertion sort.  Where the comparator
\* contradicts itself (two nulls under a column sort: each goes after the
\* other) the outcome depends on the order in which the engine passes the
\* two rows; pivotFirst says whether the row being inserted is passed first.
RECURSIVE InsertRow(_, _, _, _)
InsertRow(sorted, x, cfg, pivotFirst) ==
  IF sorted = << >> THEN <<x>>
  ELSE LET e == sorted[Len(sorted)]
           staysAfter == IF pivotFirst THEN compareRows(x, e, cfg) >= 0
                         ELSE compareRows(e, x, cfg) <= 0
       IN  IF staysAfter THEN Append(sorted, x)
           ELSE Append(InsertRow(SubSeq(sorted, 1, Len(sorted) - 1), x, cfg,
                                 pivotFirst), e)

RECURSIVE SortRows(_, _, _)
SortRows(rows, cfg, pivotFirst) ==
  IF rows = << >> THEN << >>
  ELSE InsertRow(SortRows(SubSeq(rows, 1, Len(rows) - 1), cfg, pivotFirst),
                 rows[Len(rows)], cfg, pivotFirst)

\* the rows the table lists, over all pages
filtered(pivotFirst) ==
  LET bySearch == IF Trim(search) # << >>
                  THEN SelectSeq(prospects, LAMBDA p : searchMatch(p, search))
                  ELSE prospects
      byResult == IF resultFilter # ResultAll
                  THEN SelectSeq(bySearch,
                                 LAMBDA p : resultMatch(p, resultFilter))
                  ELSE bySearch
  IN  SortRows(byResult, sortConfig, pivotFirst)

\* Math.ceil(n / PAGE_SIZE)
CeilPages(n) == (n + PAGE_SIZE - 1) \div PAGE_SIZE

\* the filters do not depend on the order of the rows
totalPages == Max(1, CeilPages(Len(filtered(TRUE))))

\* the page number taken as it is
pageAsClicked == page

safePage == Min(page, totalPages)

\* rows.slice(start, start + PAGE_SIZE) for the page number q
PageSlice(rows, q) ==
  LET start == (q - 1) * PAGE_SIZE
  IN  SubSeq(rows, start + 1, Min(start + PAGE_SIZE, Len(rows)))

\* the rows on display
pageRows(pivotFirst) == PageSlice(filtered(pivotFirst), safePage)

\* onChange of the search box
setSearch(v) ==
  /\ search' = v
  /\ page' = 1
  /\ UNCHANGED <<navVars, authResult, dashVars, prospectVars, callVars,
                 sessionVars, tableVars, pagingVars,
                 resultFilter,
                 sortConfig>>

\* onChange of the result select
setResultFilter(v) ==
  /\ resultFilter' = v
  /\ page' = 1
  /\ UNCHANGED <<navVars, authResult, dashVars, prospectVars, callVars,
                 sessionVars, tableVars, pagingVars,
                 search,
                 sortConfig>>

\* the button 'Previous'
PreviousPage ==
  /\ ~(safePage = 1 \/ saving)
  /\ page' = Max(1, page - 1)
  /\ UNCHANGED <<navVars, authResult, dashVars, prospectVars, callVars,
                 sessionVars, tableVars, pagingVars,
                 search,
                 resultFilter, sortConfig>>

\* the button 'Next'
NextPage ==
  /\ ~(safePage = totalPages \/ saving)
  /\ page' = Min(totalPages, page + 1)
  /\ UNCHANGED <<navVars, authResult, dashVars, prospectVars, callVars,
                 sessionVars, tableVars, pagingVars,
                 search,
                 resultFilter, sortConfig>>

handleSort(key) ==
  /\ sortConfig' =
       [key |-> key,
        direction |-> IF sortConfig.key = key /\ sortConfig.direction = "asc"
                      THEN "desc" ELSE "asc"]
  /\ UNCHANGED <<navVars, authResult, dashVars, prospectVars, callVars,
                 sessionVars, tableVars, pagingVars,
                 search,
                 resultFilter, page>>

(***************************************************************************)
(* List specification: the list controls over a table of up to             *)
(* MaxListRows rows                                                        *)
(***************************************************************************)
MaxListRows == 12

TextBoth == <<"B", "o", "t", "h">>
TextCalled == <<"C", "a", "l", "l", "e", "d">>

\* the row of the table with id i: the columns the list view reads, their
\* values spread over the ids
TableRow(i) ==
  [id |-> i,
   first_name |-> IF i % 2 = 1 THEN <<"A", "l">> ELSE <<"b", "o">>,
   last_name |-> CASE i % 3 = 0 -> NullText
                   [] i % 3 = 1 -> <<"L", "i">>
                   [] OTHER -> <<"a", "l">>,
   spouse_name |-> IF (i \div 2) % 2 = 0 THEN NullText ELSE <<"B", "o">>,
   phone |-> CASE i % 4 = 0 -> NullText
               [] i % 4 = 1 -> <<"5", "5", "-", "1">>
               [] i % 4 = 2 -> <<"5", UnicodeDash, "5", "1">>
               [] OTHER -> <<"(", "1", ")", " ", "5">>,
   result |-> CASE i % 5 = 0 -> NullText
                [] i % 5 = 1 -> TextBoth
                [] i % 5 = 2 -> <<" ">> \o TextBoth \o <<" ">>
                [] i % 5 = 3 -> TextCalled
                [] OTHER -> <<"b", "o", "t", "h">>,
   dissatisfied |-> CASE i % 7 = 0 -> Null
                      [] i % 3 = 0 -> "Yes"
                      [] i % 3 = 1 -> "Y"
                      [] OTHER -> "No",
   ambitious |-> CASE (i \div 3) % 3 = 0 -> "Y"
                   [] (i \div 3) % 3 = 1 -> "yes"
                   [] OTHER -> "Yes",
   next_steps |-> IF i % 4 >= 2 THEN "Closed" ELSE Null]

\* the table with the ids lo..hi, as select('*').order('id', desc) gives it
TableRows(lo, hi) == [k \in 1..(hi - lo + 1) |-> TableRow(hi + 1 - k)]

SearchTexts == {<< >>, <<" ">>, <<"A", "L">>, <<"5", "x">>, <<"5", "1">>}
ResultChoices == {ResultAll, TextBoth, TextCalled}
SortKeys == {"first_name", "last_name"}

InitList ==
  /\ SignedInAt(PathProspect)
  /\ authResult = Null
  /\ DashIdle
  /\ ListIdle
  /\ CallIdle
  /\ SessionIdle
  /\ TableIdle
  /\ PagingIdle
  /\ \E n \in 0..MaxListRows :
       /\ dbProspects = TableRows(1, n)
       /\ dbNextId = n + 1
       /\ prospects = TableRows(1, n)
  /\ loading = FALSE
  /\ saving = FALSE
  /\ mode = "new"
  /\ showCard = FALSE
  /\ activeId = 0
  /\ original = NoRow
  /\ form = emptyForm
  /\ errorMsg = Null
  /\ successMsg = Null
  /\ toastTimers = 0
  /\ writeReq = NoReq
  /\ loadsPlain = 0
  /\ loadsClose = 0

\* the list as loaded again after the oldest row of the table has been
\* deleted
LoadAfterDelete ==
  /\ prospects # << >>
  /\ prospects' = SubSeq(prospects, 1, Len(prospects) - 1)
  /\ dbProspects' = prospects'
  /\ UNCHANGED <<nonProspectVars, dbNextId, loading, saving, mode, showCard,
                 activeId, original, form, errorMsg, successMsg, toastTimers,
                 writeReq, loadsPlain, loadsClose>>

\* the list as loaded again after a row has been inserted
LoadAfterInsert ==
  /\ dbNextId <= MaxListRows
  /\ prospects' = <<TableRow(dbNextId)>> \o prospects
  /\ dbProspects' = prospects'
  /\ dbNextId' = dbNextId + 1
  /\ UNCHANGED <<nonProspectVars, loading, saving, mode, showCard,
                 activeId, original, form, errorMsg, successMsg, toastTimers,
                 writeReq, loadsPlain, loadsClose>>

NextList ==
  \/ \E v \in SearchTexts : setSearch(v)
  \/ \E v \in ResultChoices : setResultFilter(v)
  \/ PreviousPage
  \/ NextPage
  \/ \E key \in SortKeys : handleSort(key)
  \/ LoadAfterDelete
  \/ LoadAfterInsert

SpecList == InitList /\ [][NextList]_vars

(***************************************************************************)
(* Call specification: stateToName called on texts of up to MaxStateLen    *)
(* characters and on the legacy forms                                      *)
(***************************************************************************)
MaxStateLen == 3

StateChars == {"T", "x", "a", "-", " "}

LegacySpaced == <<"T", "X", " ", "-", " ">> \o TextTexas
LegacyTight == <<"T", "X", "-">> \o TextTexas

StateInputs ==
  UNION {[1..n -> StateChars] : n \in 0..MaxStateLen}
    \cup {NullText, TextTexas, LegacySpaced, LegacyTight}

InitCall ==
  /\ SignedInAt(PathProspect)
  /\ authResult = Null
  /\ ProspectIdle
  /\ DashIdle
  /\ ListIdle
  /\ CallIdle
  /\ SessionIdle
  /\ TableIdle
  /\ PagingIdle

CallStateToName(v) ==
  /\ callArg' = v
  /\ callRes' = stateToName(v)
  /\ UNCHANGED <<navVars, authResult, prospectVars, dashVars, listVars,
                 sessionVars, tableVars, pagingVars>>

\* the value a call returned is handed to stateToName again
CallStateToNameAgain ==
  /\ callArg # NullText
  /\ callArg' = callRes
  /\ callRes' = stateToName(callRes)
  /\ UNCHANGED <<navVars, authResult, prospectVars, dashVars, listVars,
                 sessionVars, tableVars, pagingVars>>

NextCall ==
  \/ \E v \in StateInputs : CallStateToName(v)
  \/ CallStateToNameAgain

SpecCall == InitCall /\ [][NextCall]_vars

(***************************************************************************)
(* Sessions specification: two dashboards edit one field of one client     *)
(* record; the backend stores the writes in the order they arrive          *)
(***************************************************************************)
MaxWrites == 3

EditedValues == {"a", "b"}

othersIdle ==
  UNCHANGED <<navVars, authResult, prospectVars, dashVars, listVars,
              callVars, tableVars, pagingVars>>

\* handleUpdateRow of session s up to its await: the update is sent
SessionUpdateRow(s, v) ==
  /\ sessions[s].write = NoWrite
  /\ Len(arrivals) + Cardinality({t \in Sessions :
                                    sessions[t].write.stage = "sent"})
       < MaxWrites
  /\ sessions' = [sessions EXCEPT ![s].write = [value |-> v, stage |-> "sent"]]
  /\ UNCHANGED <<backendValue, arrivals>>
  /\ othersIdle

\* update_client_field at the backend: the write of s arrives and is
\* stored over what the field held, or fails
BackendStore(s, ok) ==
  /\ sessions[s].write.stage = "sent"
  /\ IF ok
     THEN /\ backendValue' = sessions[s].write.value
          /\ arrivals' = Append(arrivals, sessions[s].write.value)
          /\ sessions' = [sessions EXCEPT ![s].write.stage = "stored",
                                          ![s].own = sessions[s].write.value]
     ELSE /\ sessions' = [sessions EXCEPT ![s].write.stage = "failed"]
          /\ UNCHANGED <<backendValue, arrivals>>
  /\ othersIdle

\* a session that puts the backend's value into its row after its update
SessionUpdateRowStepReads(s) ==
  /\ sessions[s].write.stage \in {"stored", "failed"}
  /\ sessions' = [sessions EXCEPT ![s].write = NoWrite,
                                  ![s].row = backendValue]
  /\ UNCHANGED <<backendValue, arrivals>>
  /\ othersIdle

\* handleUpdateRow of session s after its await: with a result the row
\* takes the value the session sent, without one the alert is shown
SessionUpdateRowStep(s) ==
  /\ sessions[s].write.stage \in {"stored", "failed"}
  /\ sessions' =
       IF sessions[s].write.stage = "stored"
       THEN [sessions EXCEPT ![s].write = NoWrite,
                             ![s].row = sessions[s].write.value]
       ELSE [sessions EXCEPT ![s].write = NoWrite]
  /\ UNCHANGED <<backendValue, arrivals>>
  /\ othersIdle

\* a fetch of session s is sent: Refresh, a sort or a page click
SessionFetch(s) ==
  /\ ~sessions[s].fetching
  /\ sessions' = [sessions EXCEPT ![s].fetching = TRUE]
  /\ UNCHANGED <<backendValue, arrivals>>
  /\ othersIdle

\* the fetch is answered with the rows as the backend holds them
SessionFetchStep(s) ==
  /\ sessions[s].fetching
  /\ sessions' = [sessions EXCEPT ![s].fetching = FALSE,
                                  ![s].row = backendValue,
                                  ![s].own = "none"]
  /\ UNCHANGED <<backendValue, arrivals>>
  /\ othersIdle

InitSessions ==
  /\ SignedInAt(PathDashboard)
  /\ authResult = Null
  /\ ProspectIdle
  /\ DashIdle
  /\ ListIdle
  /\ CallIdle
  /\ SessionIdle
  /\ TableIdle
  /\ PagingIdle

NextSessions ==
  \/ \E s \in Sessions, v \in EditedValues : SessionUpdateRow(s, v)
  \/ \E s \in Sessions, ok \in BOOLEAN : BackendStore(s, ok)
  \/ \E s \in Sessions : SessionUpdateRowStep(s)
  \/ \E s \in Sessions : SessionFetch(s)
  \/ \E s \in Sessions : SessionFetchStep(s)

SpecSessions == InitSessions /\ [][NextSessions]_vars

(***************************************************************************)
(* Cells specification: the loaded dashboard, one of its editable tables   *)
(* on display; cells are edited, left and saved while up to MaxInFlight    *)
(* update_client_field calls are in flight                                 *)
(***************************************************************************)
MaxInFlight == 2

\* the text typed into a cell of column key
TypedTexts(key) ==
  IF key \in DATE_TIME_KEYS THEN {<<"m2">>} ELSE {<<"b">>}

\* seq without its element at position i
RemoveAt(seq, i) == SubSeq(seq, 1, i - 1) \o SubSeq(seq, i + 1, Len(seq))

\* alert() holds the page: no handler runs and no answer is taken up
AlertOpen == \E i \in 1..Len(updates) : updates[i].pc = "alert"

\* the text the cell shows in the table of view
ShownValue(view, cell) ==
  IF table[view].drafts[cell] # NoDraft THEN table[view].drafts[cell]
  ELSE getCellValueForInput(table[view].rows[cell], KeyOf(cell))

\* the cell's input or button is disabled
CellDisabled(view, cell) ==
  table[view].savingId # NullId /\ table[view].savingId = RowIdOf(cell)

\* handleUpdateRow(rowId, key, value) up to its await, as called in view
\* by caller: the call as it waits for its answer.  untouched records that
\* the cell held no draft when it was left.
UpdateCall(view, cell, value, caller, untouched) ==
  [view |-> view, cell |-> cell, value |-> value,
   payload |-> PayloadValue(KeyOf(cell), value),
   caller |-> caller, pc |-> "await", untouched |-> untouched]

\* ... and the table state it sets before the await
Saving(tbl, view, cell) ==
  [tbl EXCEPT ![view].savingId = RowIdOf(cell), ![view].modified = TRUE]

\* the user clicks into the input of a cell
TableFocus(cell) ==
  /\ ~AlertOpen /\ activeView \in EditViews
  /\ cellFocus = NoCell
  /\ ~IsPopupKey(KeyOf(cell))
  /\ ~CellDisabled(activeView, cell)
  /\ cellFocus' = cell
  /\ UNCHANGED <<nonTableVars, table, clientFields, updates, saveLoop>>

\* onChange of the input that has the focus
TableOnChange(cell, text) ==
  /\ ~AlertOpen /\ activeView \in EditViews
  /\ cellFocus = cell
  /\ text # ShownValue(activeView, cell)
  /\ table' = [table EXCEPT ![activeView].drafts[cell] = text]
  /\ UNCHANGED <<nonTableVars, clientFields, updates, saveLoop, cellFocus>>

\* onBlur of the input that has the focus
TableOnBlur(cell) ==
  /\ ~AlertOpen /\ activeView \in EditViews
  /\ cellFocus = cell
  /\ Len(updates) < MaxInFlight
  /\ cellFocus' = NoCell
  /\ table' = Saving(table, activeView, cell)
  /\ updates' = Append(updates,
                       UpdateCall(activeView, cell,
                                  ShownValue(activeView, cell), "blur",
                                  table[activeView].drafts[cell] = NoDraft))
  /\ UNCHANGED <<nonTableVars, clientFields, saveLoop>>

\* a click on the button of a popup cell: the draft is set to the cell's
\* value unless there is one, and the popup opens, or closes when open
TogglePopup(cell) ==
  /\ ~AlertOpen /\ activeView \in EditViews
  /\ cellFocus = NoCell
  /\ IsPopupKey(KeyOf(cell))
  /\ table' = [table EXCEPT
       ![activeView].drafts[cell] = ShownValue(activeView, cell),
       ![activeView].openCell = IF @ = cell THEN NoCell ELSE cell]
  /\ UNCHANGED <<nonTableVars, clientFields, updates, saveLoop, cellFocus>>

\* onChange of the popup's textarea, which shows drafts[cell] ?? ""
PopupOnChange(cell, text) ==
  /\ ~AlertOpen /\ activeView \in EditViews
  /\ cellFocus = NoCell
  /\ table[activeView].openCell = cell
  /\ text # table[activeView].drafts[cell]
  /\ table' = [table EXCEPT ![activeView].drafts[cell] = text]
  /\ UNCHANGED <<nonTableVars, clientFields, updates, saveLoop, cellFocus>>

\* 'Save' of the popup, up to its await of onUpdate
PopupSave(cell) ==
  /\ ~AlertOpen /\ activeView \in EditViews
  /\ cellFocus = NoCell
  /\ table[activeView].openCell = cell
  /\ ~CellDisabled(activeView, cell)
  /\ Len(updates) < MaxInFlight
  /\ table' = Saving(table, activeView, cell)
  /\ updates' = Append(updates,
       UpdateCall(activeView, cell,
                  IF table[activeView].drafts[cell] # NoDraft
                  THEN table[activeView].drafts[cell] ELSE EmptyText,
                  "popup", FALSE))
  /\ UNCHANGED <<nonTableVars, clientFields, saveLoop, cellFocus>>

\* 'Cancel' of the popup
PopupCancel(cell) ==
  /\ ~AlertOpen /\ activeView \in EditViews
  /\ cellFocus = NoCell
  /\ table[activeView].openCell = cell
  /\ table' = [table EXCEPT ![activeView].openCell = NoCell,
                            ![activeView].drafts[cell] = NoDraft]
  /\ UNCHANGED <<nonTableVars, clientFields, updates, saveLoop, cellFocus>>

\* the drafts of a table as Object.entries lists them
DraftEntries(view) ==
  {[cell |-> c, value |-> table[view].drafts[c]] :
     c \in {d \in TableCells : table[view].drafts[d] # NoDraft}}

\* the orders in which the entries can stand: the order the keys were put
\* into the object, which the model does not keep
EntryOrders(entries) ==
  {q \in [1..Cardinality(entries) -> entries] :
     \A j, k \in 1..Cardinality(entries) : q[j] = q[k] => j = k}

\* 'Save Changes' of the view on display, up to its first await; with no
\* draft to send it ends at once.  One loop runs at a time.
TableSaveChanges ==
  /\ ~AlertOpen /\ activeView \in EditViews
  /\ cellFocus = NoCell
  /\ table[activeView].modified
  /\ saveLoop.view = "none"
  /\ Len(updates) < MaxInFlight
  /\ LET entries == DraftEntries(activeView)
     IN  IF entries = {}
         THEN /\ table' = [table EXCEPT ![activeView].modified = FALSE]
              /\ UNCHANGED <<updates, saveLoop>>
         ELSE \E todo \in EntryOrders(entries) :
                /\ table' = Saving(table, activeView, todo[1].cell)
                /\ updates' = Append(updates,
                     UpdateCall(activeView, todo[1].cell, todo[1].value,
                                "loop", FALSE))
                /\ saveLoop' = [view |-> activeView, todo |-> Tail(todo),
                                started |-> entries, written |-> {}]
  /\ UNCHANGED <<nonTableVars, clientFields, cellFocus>>

\* what handleSaveChanges has stored when its call u has returned
WrittenWith(u, ok) ==
  IF ok THEN saveLoop.written \cup {[cell |-> u.cell, value |-> u.value]}
  ELSE saveLoop.written

\* handleUpdateRow from its await to its end for the call at position i of
\* updates, ok telling whether it had a result, and what its caller does
\* when it has returned: nothing (onBlur), closing the popup and deleting
\* its draft (the popup's Save), the next draft or the two resets
\* (handleSaveChanges)
UpdateRowReturns(i, ok) ==
  LET u == updates[i]
      stored == IF ok
                THEN [table EXCEPT ![u.view].rows[u.cell] = u.value,
                                   ![u.view].drafts[u.cell] = NoDraft]
                ELSE table
      ended == [stored EXCEPT ![u.view].savingId = NullId]
      written == WrittenWith(u, ok)
  IN  CASE u.caller = "blur" ->
             /\ table' = ended
             /\ updates' = RemoveAt(updates, i)
             /\ UNCHANGED saveLoop
        [] u.caller = "popup" ->
             /\ table' = [ended EXCEPT ![u.view].openCell = NoCell,
                                       ![u.view].drafts[u.cell] = NoDraft]
             /\ updates' = RemoveAt(updates, i)
             /\ UNCHANGED saveLoop
        [] u.caller = "loop" /\ saveLoop.todo # << >> ->
             LET next == Head(saveLoop.todo)
             IN  /\ table' = Saving(ended, saveLoop.view, next.cell)
                 /\ updates' = Append(RemoveAt(updates, i),
                      UpdateCall(saveLoop.view, next.cell, next.value,
                                 "loop", FALSE))
                 /\ saveLoop' = [saveLoop EXCEPT !.todo = Tail(@),
                                                 !.written = written]
        [] OTHER ->
             /\ table' = [ended EXCEPT
                  ![saveLoop.view].drafts = [c \in TableCells |-> NoDraft],
                  ![saveLoop.view].modified = FALSE]
             /\ updates' = RemoveAt(updates, i)
             /\ saveLoop' = NoLoop

\* update_client_field is answered: with a result the backend has stored
\* the value and handleUpdateRow runs to its end; without one the alert
\* opens
UpdateAnswered(i, ok) ==
  /\ ~AlertOpen
  /\ i \in 1..Len(updates)
  /\ updates[i].pc = "await"
  /\ IF ok
     THEN /\ clientFields' =
               [clientFields EXCEPT ![updates[i].cell] = updates[i].payload]
          /\ UpdateRowReturns(i, TRUE)
     ELSE /\ updates' = [updates EXCEPT ![i].pc = "alert"]
          /\ UNCHANGED <<table, clientFields, saveLoop>>
  /\ UNCHANGED <<nonTableVars, cellFocus>>

\* the user closes the alert and handleUpdateRow runs to its end
UpdateAlertClosed(i) ==
  /\ i \in 1..Len(updates)
  /\ updates[i].pc = "alert"
  /\ UpdateRowReturns(i, FALSE)
  /\ UNCHANGED <<nonTableVars, clientFields, cellFocus>>

\* the dashboard after loadData has ended well, with one of the editable
\* views chosen; the time stamp the backend holds has seconds or none
InitCells ==
  /\ SignedInAt(PathDashboard)
  /\ authResult = Null
  /\ ProspectIdle
  /\ ListIdle
  /\ CallIdle
  /\ SessionIdle
  /\ PagingIdle
  /\ ViewIdle
  /\ dashLoading = FALSE
  /\ dashError = ""
  /\ activeView \in EditViews
  /\ upcomingRows = "rows"
  /\ progressRows = "rows"
  /\ allRows = "rows"
  /\ progressSortDir = "asc"
  /\ allSortDir = "desc"
  /\ dashSaving = "none"
  /\ headData = {RpcTopStats, RpcChart, RpcCallChart}
  /\ dashPc = 0
  /\ dashCalls = {}
  /\ lastRpcError = Null
  /\ alertMsg = Null
  /\ \E sec \in {"s00", "s30"} :
       clientFields = [c \in TableCells |->
                         IF KeyOf(c) \in DATE_TIME_KEYS THEN <<"m1", sec>>
                         ELSE StoredFields[c]]
  /\ table = [v \in EditViews |-> TableAtRest(clientFields)]
  /\ updates = << >>
  /\ saveLoop = NoLoop
  /\ cellFocus = NoCell

NextCells ==
  \/ \E cell \in TableCells : TableFocus(cell)
  \/ \E cell \in TableCells :
       \E text \in TypedTexts(KeyOf(cell)) : TableOnChange(cell, text)
  \/ \E cell \in TableCells : TableOnBlur(cell)
  \/ \E cell \in TableCells : TogglePopup(cell)
  \/ \E cell \in TableCells :
       \E text \in TypedTexts(KeyOf(cell)) : PopupOnChange(cell, text)
  \/ \E cell \in TableCells : PopupSave(cell)
  \/ \E cell \in TableCells : PopupCancel(cell)
  \/ TableSaveChanges
  \/ \E i \in 1..MaxInFlight, ok \in BOOLEAN : UpdateAnswered(i, ok)
  \/ \E i \in 1..MaxInFlight : UpdateAlertClosed(i)

SpecCells == InitCells /\ [][NextCells]_vars

(***************************************************************************)
(* Paging specification: the loaded dashboard; the paged views are sorted, *)
(* paged and refreshed while up to MaxFetches of their calls are awaited,  *)
(* which are answered in any order                                         *)
(***************************************************************************)
MaxFetches == 2

\* the records the backend holds: two pages of them
StoredTotal == ALL_PAGE_SIZE + 5

PageSizeOf(view) ==
  IF view = "progress" THEN PROGRESS_PAGE_SIZE ELSE ALL_PAGE_SIZE

\* progressPageCount / allPageCount
PagedCount(view) ==
  (listing[view].total + PageSizeOf(view) - 1) \div PageSizeOf(view)

\* the parameters fetchProgressMonitoring / fetchAllRecords send for a
\* view in state l; the rows the backend returns are named by them
Request(view, l) ==
  [view |-> view, page |-> l.page, sortKey |-> l.sortKey,
   sortDir |-> l.sortDir]

RowsFor(req) ==
  [page |-> req.page, sortKey |-> req.sortKey, sortDir |-> req.sortDir]

\* the view's state l is set and the call for it is made
FetchWith(view, l) ==
  /\ Len(fetches) < MaxFetches
  /\ listing' = [listing EXCEPT ![view] = [l EXCEPT !.latest = Pending]]
  /\ fetches' = Append(fetches, Request(view, l))
  /\ UNCHANGED nonPagingVars

\* a click on a column header of the view on display, and the effect on
\* its sort key and direction that follows
PagedSort(view, key) ==
  /\ CanClick /\ activeView = view
  /\ FetchWith(view,
       IF listing[view].sortKey = key
       THEN [listing[view] EXCEPT !.sortDir = Flip(@)]
       ELSE [listing[view] EXCEPT !.sortKey = key, !.sortDir = "asc"])

\* 'Prev' (by = -1) and 'Next' (by = 1) of the view on display, and the
\* effect on its page that follows
PagedSetPage(view, by) ==
  /\ CanClick /\ activeView = view
  /\ PagedCount(view) > 1
  /\ IF by = 1 THEN listing[view].page # PagedCount(view)
     ELSE listing[view].page # 1
  /\ FetchWith(view,
       [listing[view] EXCEPT
          !.page = IF by = 1 THEN Min(PagedCount(view), @ + 1)
                   ELSE Max(1, @ - 1)])

\* 'Refresh' of the view on display: the call it makes for the rows
PagedRefresh(view) ==
  /\ CanClick /\ activeView = view
  /\ FetchWith(view, listing[view])

\* the call at position i of fetches is answered, with rows or, after an
\* error, with null
FetchAnswered(i, ok) ==
  /\ i \in 1..Len(fetches)
  /\ LET req == fetches[i]
         l == listing[req.view]
         got == IF ok THEN Shown(RowsFor(req), StoredTotal)
                ELSE Shown(NoRows, 0)
         newest == \A j \in (i + 1)..Len(fetches) :
                     fetches[j].view # req.view
     IN  listing' = [listing EXCEPT ![req.view] =
           [l EXCEPT !.rows = got.rows, !.total = got.total,
                     !.latest = IF newest /\ l.latest = Pending THEN got
                                ELSE @]]
  /\ fetches' = RemoveAt(fetches, i)
  /\ UNCHANGED nonPagingVars

\* loadData has ended well: each paged view shows its first page
ListingLoaded(view) ==
  LET l == ListingAtRest(view)
      got == Shown(RowsFor(Request(view, l)), StoredTotal)
  IN  [l EXCEPT !.rows = got.rows, !.total = got.total, !.latest = got]

InitPaging ==
  /\ SignedInAt(PathDashboard)
  /\ authResult = Null
  /\ ProspectIdle
  /\ ListIdle
  /\ CallIdle
  /\ SessionIdle
  /\ TableIdle
  /\ ViewIdle
  /\ dashLoading = FALSE
  /\ dashError = ""
  /\ activeView = "upcoming"
  /\ upcomingRows = "rows"
  /\ progressRows = "rows"
  /\ allRows = "rows"
  /\ progressSortDir = "asc"
  /\ allSortDir = "desc"
  /\ dashSaving = "none"
  /\ headData = {RpcTopStats, RpcChart, RpcCallChart}
  /\ dashPc = 0
  /\ dashCalls = {}
  /\ lastRpcError = Null
  /\ alertMsg = Null
  /\ listing = [v \in PagedViews |-> ListingLoaded(v)]
  /\ fetches = << >>

NextPaging ==
  \/ \E v \in {"upcoming", "progress", "all"} : setActiveView(v)
  \/ PagedSort("progress", ProgressKeys[1])
  \/ \E k \in 1..Len(AllKeys) : PagedSort("all", AllKeys[k])
  \/ \E v \in PagedViews, by \in {-1, 1} : PagedSetPage(v, by)
  \/ \E v \in PagedViews : PagedRefresh(v)
  \/ \E i \in 1..MaxFetches, ok \in BOOLEAN : FetchAnswered(i, ok)

SpecPaging == InitPaging /\ [][NextPaging]_vars

(***************************************************************************)
(* Properties: session guard, login, logout                                *)
(***************************************************************************)
ProtectedMount == ProspectMount \/ DashboardMount \/ FnaMount

\* p is root or lies below it
UnderPath(p, root) == p = root \/ StartsWith(p, root \o StrSlash)

UnderProtected(p) == \E root \in ProtectedPaths : UnderPath(p, root)

\* the jar holds a cookie named exactly canfs_auth with value exactly true
HoldsAuthTrue(j) ==
  \E i \in 1..Len(j) : j[i].name = AUTH_COOKIE /\ j[i].value = StrTrue

\* C1: whenever a protected page (/dashboard, /fna, /prospect) mounts and no
\* cookie canfs_auth=true is present, the page redirects to /auth.
C1_MountWithoutCookieRedirectsToAuth ==
  [][(ProtectedMount /\ ~HoldsAuthTrue(jar)) => pendingNav' = PathAuth]_vars

\* C2: a protected page that mounts without the auth cookie issues no
\* backend read (and so never comes to hold backend rows).
C2_NoReadWithoutCookie ==
  [][(ProtectedMount /\ ~HoldsAuthTrue(jar)) => inflight' = inflight]_vars

\* the path the 'Go to' list promises for a destination
GoToPath(d) ==
  CASE d = "dashboard" -> PathDashboard
    [] d = "fna" -> PathFna
    [] d = "prospect" -> PathProspect

\* C3: after a sign-in with non-empty email and password the auth cookie is
\* set and the browser is navigated to the path of the chosen destination.
C3_SignInGoesToChosenDestination ==
  [][ /\ (signIn /\ email # "" /\ password # "") => HoldsAuthTrue(jar')
      /\ signInResume => pendingNav' = GoToPath(destination)
      /\ (signIn2 /\ email # "" /\ password # "")
           => (HoldsAuthTrue(jar') /\ pendingNav' = GoToPath(destination))
    ]_vars

AnyLogout == logout \/ handleLogout \/ fnaHeaderLogout(TRUE)

\* C4: logout from any protected page clears the auth cookie and navigates
\* to /auth (so that later visits of protected pages are refused until a
\* new sign-in).
C4_LogoutClearsCookieAndGoesToAuth ==
  [][AnyLogout => (~hasAuthCookie(jar') /\ pendingNav' = PathAuth)]_vars

\* C5: hasAuthCookie returns true if and only if the browser holds a cookie
\* named exactly canfs_auth whose value is exactly true.
C5_HasAuthCookieIsExact ==
  authResult # Null => (authResult = "true" <=> HoldsAuthTrue(jar))

\* C6: a sign-in submitted with an empty email or an empty password shows
\* 'Please enter email and password', sets no cookie, requests no navigation
\* and leaves the form usable (isLoading false, no sign-in pending).
C6_EmptyCredentialsRejected ==
  [][((signIn \/ signIn2) /\ (email = "" \/ password = ""))
       => /\ loginError' = MsgEnterBoth
          /\ jar' = jar
          /\ pendingNav' = pendingNav
          /\ ~isLoading'
          /\ signInPc' = "idle"]_vars

C6_Witness ==
  /\ OnLoginPage
  /\ loginError = MsgEnterBoth
  /\ email = "a"
  /\ password = ""
  /\ ~isLoading
  /\ pendingNav = NoPath
  /\ ~hasAuthCookie(jar)

\* the login page's redirect effect has run for the last time on this mount
LoginRedirectRan ==
  /\ LoginMount \/ LoginMount2 \/ LoginRerender2
  /\ ~effectDue'

NextProvided == searchNext # NoPath /\ searchNext # StrEmpty

\* C7: when the login page mounts with the auth cookie present it redirects
\* to the ?next path if one is provided, otherwise to /dashboard, and the
\* target is always a path under /dashboard, /fna or /prospect.
C7_LoginRedirectStaysInside ==
  [][(LoginRedirectRan /\ hasAuthCookie(jar))
       => /\ UnderProtected(pendingNav')
          /\ ~NextProvided => pendingNav' = PathDashboard
          /\ (NextProvided /\ UnderProtected(searchNext))
               => pendingNav' = searchNext]_vars

NonBlank(t) == \E i \in 1..Len(t) : t[i] # " "

AllNonBlank(f) ==
  NonBlank(f.first_name) /\ NonBlank(f.last_name) /\ NonBlank(f.phone)

SaveRequestSent ==
  /\ writeReq' # writeReq
  /\ writeReq'.op \in {"insert", "update"}

\* C9: saveNew and saveEdit send their insert / update only when first name,
\* last name and phone of the form hold something other than blanks; with a
\* blank one they show 'Missing required fields', send nothing and leave
\* prospects, form, mode and selection as they were.
C9_SaveNeedsRequiredFields ==
  [][ /\ SaveRequestSent => AllNonBlank(form)
      /\ ((saveNew \/ saveEdit) /\ ~AllNonBlank(form)) =>
           /\ errorMsg' = MsgMissing
           /\ writeReq' = writeReq
           /\ UNCHANGED <<prospects, form, mode, activeId>> ]_vars

C9_Witness ==
  /\ errorMsg = MsgMissing
  /\ writeReq = NoReq
  /\ NonBlank(form.first_name) /\ NonBlank(form.last_name)
  /\ form.phone = <<" ">>

\* calls of the RPC in flight
InFlight(name) ==
  (IF dashPc > 0 /\ LoadDataOrder[dashPc] = name THEN 1 ELSE 0)
  + (IF name \in dashCalls THEN 1 ELSE 0)

CallFailed(name) ==
  \/ dashPc > 0 /\ LoadDataOrder[dashPc] = name /\ loadDataStep(FALSE)
  \/ fetchStep(name, FALSE)
  \/ name = RpcUpdate /\ handleUpdateRowStep(FALSE)

DashErrorVisible == dashError # "" \/ alertMsg # Null

\* C10: a dashboard RPC that fails leaves an error message on the screen and
\* is not called again by the step that handles the failure.
C10_FailedRpcShowsError ==
  [][ \A name \in RpcNames :
        CallFailed(name) =>
          /\ DashErrorVisible'
          /\ InFlight(name)' = InFlight(name) - 1 ]_vars

\* C11: a banner message is dismissed by its own timer only, the one setToast
\* started when it raised the message (timers of equal delay fire in the
\* order they were started, so that timer is the last one pending), and not
\* before by the timer of an earlier message.
C11_MessageDismissedByOwnTimer ==
  [][(ToastTimeout /\ (errorMsg # Null \/ successMsg # Null))
       => toastTimers = 1]_vars


(***************************************************************************)
(* Properties: the prospect list                                           *)
(***************************************************************************)
ListedIds(pivotFirst) ==
  {filtered(pivotFirst)[k].id : k \in 1..Len(filtered(pivotFirst))}

LoadedRows == {prospects[k] : k \in 1..Len(prospects)}

\* the result filter as the statement has it
PassesResultFilter(p) ==
  resultFilter = ResultAll \/ Trim(OrEmpty(p.result)) = resultFilter

\* the search as the statement has it: blank, or the text occurs in one of
\* the four columns, capitals and small letters taken as equal
TextOccurs(p) ==
  LET text == toLowerCase(Trim(search))
  IN  \/ text = << >>
      \/ \E col \in {p.first_name, p.last_name, p.spouse_name, p.phone} :
           Includes(toLowerCase(OrEmpty(col)), text)

\* the search with what the statement leaves out: dashes of every kind are
\* taken as equal, and a text holding digits also passes a row whose phone
\* digits hold the digits of the text in a row
TextOrDigitsOccur(p) ==
  LET text == normText(search)
      digits == DigitsOf(search)
  IN  \/ text = << >>
      \/ \E col \in {p.first_name, p.last_name, p.spouse_name, p.phone} :
           Includes(normText(OrEmpty(col)), text)
      \/ digits # << >> /\ Includes(DigitsOf(OrEmpty(p.phone)), digits)

\* C12, as stated: the table lists exactly the loaded prospects whose
\* trimmed result is the chosen category (or the filter is ALL) and in
\* whose first name, last name, spouse name or phone the search text
\* occurs case-insensitively (or the search is blank).
C12_ListsExactlyPassingRows ==
  \A pivotFirst \in BOOLEAN :
    ListedIds(pivotFirst) =
      {p.id : p \in {q \in LoadedRows : PassesResultFilter(q) /\ TextOccurs(q)}}

\* C12, amended: the table lists, each once, exactly the loaded prospects
\* that pass the result filter and the search, where the search also
\* passes a row whose phone digits hold the digits of the search text and
\* takes dashes of every kind as equal.
C12_ListsRowsPassingTextOrDigits ==
  \A pivotFirst \in BOOLEAN :
    /\ ListedIds(pivotFirst) =
         {p.id : p \in {q \in LoadedRows :
                          PassesResultFilter(q) /\ TextOrDigitsOccur(q)}}
    /\ Cardinality(ListedIds(pivotFirst)) = Len(filtered(pivotFirst))

\* both filters act, and a row is listed for its phone digits alone
C12_Witness ==
  /\ search = <<"5", "x">>
  /\ resultFilter = TextBoth
  /\ \E k \in 1..Len(filtered(TRUE)) :
       /\ filtered(TRUE)[k].phone = <<"5", "5", "-", "1">>
       /\ ~TextOccurs(filtered(TRUE)[k])
  /\ Len(filtered(TRUE)) < Len(prospects)


\* the pages 1..q of rows, one after the other
RECURSIVE PagesUpTo(_, _)
PagesUpTo(rows, q) ==
  IF q = 0 THEN << >> ELSE PagesUpTo(rows, q - 1) \o PageSlice(rows, q)

\* C13: after any loads, deletes, filter changes and page clicks the page
\* on display is between 1 and totalPages, totalPages is the least number
\* of pages of PAGE_SIZE rows that holds the filtered rows (at least 1),
\* at most PAGE_SIZE rows are on display, and the pages 1..totalPages one
\* after the other are the filtered rows, each once, in their order.
C13_PagesPartitionFilteredRows ==
  \A pivotFirst \in BOOLEAN :
    LET rows == filtered(pivotFirst)
    IN  /\ 1 <= safePage /\ safePage <= totalPages
        /\ totalPages >= 1
        /\ totalPages * PAGE_SIZE >= Len(rows)
        /\ totalPages > 1 => (totalPages - 1) * PAGE_SIZE < Len(rows)
        /\ Len(pageRows(pivotFirst)) <= PAGE_SIZE
        /\ PagesUpTo(rows, totalPages) = rows
        /\ safePage < totalPages => Len(pageRows(pivotFirst)) = PAGE_SIZE

\* the second page was on display when a delete left one page only
C13_Witness ==
  /\ page = 2
  /\ totalPages = 1
  /\ Len(pageRows(TRUE)) = PAGE_SIZE


\* Dissatisfied and Ambitious are both Yes, written 'Yes' or 'Y'
BothYes(p) ==
  /\ p.dissatisfied = "Yes" \/ p.dissatisfied = "Y"
  /\ p.ambitious = "Yes" \/ p.ambitious = "Y"

\* C20: whatever the sort column and direction, none included, every listed
\* record whose Dissatisfied and Ambitious are both Yes ('Yes' or 'Y')
\* comes before every listed record of which that is not so.
C20_BothYesRowsComeFirst ==
  \A pivotFirst \in BOOLEAN :
    LET rows == filtered(pivotFirst)
    IN  \A j, k \in 1..Len(rows) :
          (BothYes(rows[j]) /\ ~BothYes(rows[k])) => j < k

\* an ascending sort by last name over rows of both kinds: a row with both
\* Yes and no last name, which the column alone would put last, stands
\* before a row without both Yes that has a last name
C20_Witness ==
  /\ sortConfig = [key |-> "last_name", direction |-> "asc"]
  /\ LET rows == filtered(TRUE)
     IN  \E j, k \in 1..Len(rows) :
           /\ j < k
           /\ BothYes(rows[j]) /\ ~BothYes(rows[k])
           /\ rows[j].last_name = NullText /\ rows[k].last_name # NullText

\* the record is marked Closed in its Next Steps column
IsClosed(p) == p.next_steps = "Closed"

\* C21: whatever the sort column and direction, none included, every listed
\* record whose next_steps is 'Closed' comes after every listed record
\* whose next_steps is not 'Closed'.
C21_ClosedRowsComeLast ==
  \A pivotFirst \in BOOLEAN :
    LET rows == filtered(pivotFirst)
    IN  \A j, k \in 1..Len(rows) :
          (IsClosed(rows[j]) /\ ~IsClosed(rows[k])) => k < j

\* C21, amended: whatever the sort column and direction, none included,
\* among the listed records that agree on whether Dissatisfied and
\* Ambitious are both Yes, every Closed record comes after every record
\* that is not Closed.
C21_ClosedRowsComeLastInTheirGroup ==
  \A pivotFirst \in BOOLEAN :
    LET rows == filtered(pivotFirst)
    IN  \A j, k \in 1..Len(rows) :
          (/\ BothYes(rows[j]) = BothYes(rows[k])
           /\ IsClosed(rows[j]) /\ ~IsClosed(rows[k])) => k < j

\* an ascending sort by first name over rows without both Yes: a Closed
\* row, whose first name alone would put it first, stands after a row
\* that is not Closed
C21_Witness ==
  /\ sortConfig = [key |-> "first_name", direction |-> "asc"]
  /\ LET rows == filtered(TRUE)
     IN  \E j, k \in 1..Len(rows) :
           /\ k < j
           /\ ~BothYes(rows[j]) /\ ~BothYes(rows[k])
           /\ IsClosed(rows[j]) /\ ~IsClosed(rows[k])
           /\ localeCompare(rows[j].first_name, rows[k].first_name) < 0


(***************************************************************************)
(* Properties: the state and yes/no columns                                *)
(***************************************************************************)
IsAbbreviation(t) == \E k \in 1..Len(STATES) : STATES[k].abbr = toUpperCase(t)

NameOfAbbreviation(t) ==
  STATES[CHOOSE k \in 1..Len(STATES) : STATES[k].abbr = toUpperCase(t)].name

HasDash(t) == \E k \in 1..Len(t) : t[k] = "-"

\* C18: stateToName returns '' for a blank value, the full state name for
\* a two-letter abbreviation in any case and for the legacy values
\* 'TX - Texas' and 'TX-Texas', and the trimmed value otherwise (here asked
\* of the values without a dash only, a value with one being legacy-like);
\* and what it returns is canonical: stateToName returns it unchanged.
C18_StateToNameIsCanonical ==
  [][\A v \in StateInputs : CallStateToName(v) =>
       LET raw == Trim(OrEmpty(v))
       IN  /\ raw = << >> => callRes' = << >>
           /\ IsAbbreviation(raw) => callRes' = NameOfAbbreviation(raw)
           /\ raw \in {LegacySpaced, LegacyTight} => callRes' = TextTexas
           /\ (raw # << >> /\ ~IsAbbreviation(raw) /\ ~HasDash(raw))
                => callRes' = raw
           /\ stateToName(callRes') = callRes']_vars


\* the update in flight carries what the form shows of the stored row:
\* the row was opened and saved with no field changed
SavedAsOpened ==
  /\ writeReq.op = "update"
  /\ FindRow(dbProspects, writeReq.id) # NoRow
  /\ writeReq.payload =
       Payload(toProspectForm(FindRow(dbProspects, writeReq.id)))

\* C19: opening a stored prospect for editing and saving it without
\* changing any field leaves every stored field of the row unchanged.
C19_SaveWithoutChangeKeepsRow ==
  [][(SavedAsOpened /\ \E ok \in BOOLEAN : UpdateResponse(ok))
       => dbProspects' = dbProspects]_vars


(***************************************************************************)
(* Properties: the dashboard views                                         *)
(***************************************************************************)
UpcomingSort == <<upcomingSortKey, upcomingSortDir>>
ProgressSort == <<progressSortKey, progressSortDir>>
AllSort == <<allSortKey, allSortDir>>

\* C14: exactly one of the three views is active; a step that switches the
\* active view leaves every view's rows, sort key, sort direction, page
\* and drafts as they were; and a step that changes the sort of one view
\* leaves the sorts of the two others as they were.
C14_SwitchChangesOnlyActiveView ==
  [][/\ activeView' \in {"upcoming", "progress", "all"}
     /\ activeView' # activeView
          => UNCHANGED <<upcomingRows, progressRows, allRows, UpcomingSort,
                         ProgressSort, AllSort, pageVars, draftVars>>
     /\ UpcomingSort' # UpcomingSort => UNCHANGED <<ProgressSort, AllSort>>
     /\ ProgressSort' # ProgressSort => UNCHANGED <<UpcomingSort, AllSort>>
     /\ AllSort' # AllSort => UNCHANGED <<UpcomingSort, ProgressSort>>]_vars

\* the view has been switched with drafts, sorts and a page set before
C14_Witness ==
  /\ activeView = "progress"
  /\ upcomingDrafts # {}
  /\ upcomingSortKey = "client"
  /\ progressSortDir = "desc"
  /\ allSortKey = "client"
  /\ allPage = 2


\* the cards under the three view buttons, each rendered for its view only
UpcomingCardShown == DashShown /\ activeView = "upcoming"
ProgressCardShown == DashShown /\ activeView = "progress"
AllRecordsCardShown == DashShown /\ activeView = "all"

\* C15: when the dashboard has loaded, the table of the clients and the
\* Upcoming Meetings and Client Progress Summary cards are hidden, each
\* until its button is clicked.
C15_CardsStartHidden ==
  [][(dashLoading /\ ~dashLoading')
       => (~UpcomingCardShown' /\ ~ProgressCardShown'
           /\ ~AllRecordsCardShown')]_vars


\* the Save Changes button of a view is enabled
SaveChangesEnabled(view) ==
  IF view = "upcoming" THEN upcomingModified ELSE allModified

\* the view holds a cell value the user has typed and left, and that no
\* update has stored
HoldsUnsavedCell(view) ==
  \E cell \in (IF view = "upcoming" THEN upcomingDrafts ELSE allDrafts) :
    /\ focusCell # cell
    /\ ~(dashSaving = view /\ savingCell = cell)

\* C16: in the Upcoming Meetings and All Records views the Save Changes
\* button is disabled when the page has loaded, is enabled whenever the
\* view holds a cell value the user has modified and not yet saved, and is
\* disabled after Refresh.
C16_SaveChangesFollowsUnsavedCells ==
  [][/\ (dashLoading /\ ~dashLoading')
          => (~upcomingModified' /\ ~allModified')
     /\ \A view \in {"upcoming", "all"} :
          HoldsUnsavedCell(view)' => SaveChangesEnabled(view)'
     /\ handleRefreshUpcoming => ~upcomingModified'
     /\ refreshAll => ~allModified']_vars


(***************************************************************************)
(* Properties: concurrent edits                                            *)
(***************************************************************************)
\* C17: the backend holds the value of the write that arrived last, and a
\* session whose update has been stored and answered keeps showing its own
\* value, whatever the other session has written since, until a fetch of
\* its own is answered.
C17_LastWriteWinsUnreconciled ==
  /\ arrivals # << >> => backendValue = arrivals[Len(arrivals)]
  /\ \A s \in Sessions :
       (sessions[s].own # "none" /\ sessions[s].write = NoWrite)
         => sessions[s].row = sessions[s].own

\* both sessions wrote the field, the write of s2 arrived last, and s1
\* still shows its own value
C17_Witness ==
  /\ arrivals = <<"a", "b">>
  /\ sessions["s1"].own = "a"
  /\ sessions["s1"].write = NoWrite
  /\ sessions["s1"].row = "a"
  /\ sessions["s2"].row = "b"
  /\ backendValue = "b"

(***************************************************************************)
(* Properties: the editable cells                                          *)
(***************************************************************************)
\* the call most recently made by handleUpdateRow
LastCall == updates'[Len(updates')]

\* the savingId of the view of call u once handleUpdateRow has returned:
\* null, or the row of the next draft when handleSaveChanges goes on
SavingIdAfter(u) ==
  IF u.caller = "loop" /\ saveLoop.todo # << >>
  THEN RowIdOf(Head(saveLoop.todo).cell)
  ELSE NullId

\* C22: when an editable cell loses the focus or is saved,
\* update_client_field is called for its row and column; on success the
\* local row of the view shows the new value and the cell's draft is
\* removed; on failure the user is alerted, the local row is unchanged and
\* the draft is kept; in both cases the view's savingId is null again when
\* handleUpdateRow has returned.
C22_UpdateStoresOrKeepsDraft ==
  [][/\ \A cell \in TableCells :
          (TableOnBlur(cell) \/ PopupSave(cell))
            => /\ Len(updates') = Len(updates) + 1
               /\ LastCall.cell = cell /\ LastCall.pc = "await"
     /\ \A i \in 1..MaxInFlight :
          /\ UpdateAnswered(i, TRUE)
               => /\ table'[updates[i].view].rows[updates[i].cell]
                       = updates[i].value
                  /\ table'[updates[i].view].drafts[updates[i].cell]
                       = NoDraft
                  /\ table'[updates[i].view].savingId
                       = SavingIdAfter(updates[i])
          /\ UpdateAnswered(i, FALSE) => updates'[i].pc = "alert"
          /\ UpdateAlertClosed(i)
               => /\ table'[updates[i].view].rows = table[updates[i].view].rows
                  /\ table'[updates[i].view].drafts[updates[i].cell]
                       = table[updates[i].view].drafts[updates[i].cell]
                  /\ table'[updates[i].view].savingId
                       = SavingIdAfter(updates[i])]_vars

\* the step with which handleSaveChanges ends: its last call returns
SaveChangesEnds(i, ok) ==
  /\ IF ok THEN UpdateAnswered(i, TRUE) ELSE UpdateAlertClosed(i)
  /\ saveLoop.view # "none"
  /\ saveLoop'.view = "none"

\* C23: when handleSaveChanges ends, every draft the view held when it
\* started has been stored by the backend or is still a draft of the view.
C23_SaveChangesLosesNoEdit ==
  [][\A i \in 1..MaxInFlight, ok \in BOOLEAN :
       SaveChangesEnds(i, ok)
         => \A e \in saveLoop.started :
              \/ e \in WrittenWith(updates[i], ok)
              \/ table'[saveLoop.view].drafts[e.cell] = e.value]_vars

\* C25: while an update_client_field call for a row is awaited, the
\* savingId of its view is that row's id, so the row's cells are disabled.
C25_RowDisabledWhileUpdating ==
  \A i \in 1..Len(updates) :
    updates[i].pc = "await"
      => table[updates[i].view].savingId = RowIdOf(updates[i].cell)

\* C26: leaving a cell that holds no draft issues no update_client_field
\* call and does not mark the view as modified, and no such leaving
\* changes what the backend holds.
C26_LeavingUnchangedCellWritesNothing ==
  [][/\ \A cell \in TableCells :
          (TableOnBlur(cell) /\ table[activeView].drafts[cell] = NoDraft)
            => /\ updates' = updates
               /\ table'[activeView].modified = table[activeView].modified
     /\ \A i \in 1..MaxInFlight :
          (UpdateAnswered(i, TRUE) /\ updates[i].untouched)
            => clientFields' = clientFields]_vars

(***************************************************************************)
(* Properties: the paged views                                             *)
(***************************************************************************)
\* C24: once no call is awaited, the rows and the total a paged view shows
\* are those the call made last for it returned, and with rows returned
\* they are the rows of the view's page, sort column and sort direction,
\* in whatever order the calls were answered.
C24_ShownRowsAreOfCurrentRequest ==
  fetches = << >>
    => \A view \in PagedViews :
         /\ listing[view].rows = listing[view].latest.rows
         /\ listing[view].total = listing[view].latest.total
         /\ listing[view].latest.rows # NoRows
              => listing[view].rows = RowsFor(Request(view, listing[view]))

=============================================================================
